---- MODULE Spec2Model ----
(***************************************************************************)
(* Model of the trade log analyzer.                                        *)
(*                                                                         *)
(* Two programs read the same CSV trade log:                               *)
(*   - SimpleTradeAnalyzer (src/simple_analyzer.py), standard library only *)
(*   - TradeAnalyzer       (src/src/trade_analyzer.py), pandas based       *)
(* A run executes one of them (variable program).  The CSV file is the     *)
(* variable rows; every cell is the text found in the file.                *)
(*                                                                         *)
(* Numbers.  Python floats are modelled by exact rationals <<n, d>> in     *)
(* lowest terms with d > 0; <<1,0>>, <<-1,0>> and <<0,0>> stand for +inf,  *)
(* -inf and NaN; in the pandas program <<0, -1>> is the float -0.0, whose  *)
(* sign decides the sign of x / 0.  The amounts read from the file (prices, commission, risk *)
(* amount, stop loss) and the amounts derived from them by + - and by *    *)
(* with the integer quantity (gross_pnl, net_pnl, cumulative_pnl, peak and *)
(* drawdown) are kept in fixed point, as the integer number of 128ths      *)
(* (Unit per 1.0): "2" is 256 and "0.0078125" is 1.  These amounts are     *)
(* binary fractions, which the floats of the program hold and add exactly. *)
(* Money(x) is the float a fixed-point amount stands for.  A quotient or a *)
(* mean is the rational the float approximates; round(x, 2) follows the    *)
(* float: on a decimal tie the side on which the float lies decides        *)
(* (DoubleError, MeanError, QuotientError, ScaledError, ExpectancyError).  *)
(***************************************************************************)
EXTENDS Integers, Sequences, FiniteSets, TLC

VARIABLES
    program,   \* which analyzer this run executes: "simple" or "pandas"
    rows,      \* the CSV file: sequence of raw rows (cell texts)
    pc,        \* position of the run
    trades,    \* SimpleTradeAnalyzer.trades (list of dicts)
    loadError, \* exception caught and printed by load_trades ("" = none)
    scan,      \* calculate_metrics: the list sorted(self.trades, key=date), as indices into trades
    peaks,     \* calculate_metrics: value of the local peak after each step of the scan
    locals,    \* get_basic_stats: its local variables at the return of the last call
    stats,     \* dict returned by the last get_basic_stats call
    setupStats, \* dict returned by the last get_setup_stats call, entries in dict order
    raised,    \* exception that escaped the last call ("" = none)
    dfIsNone,  \* TradeAnalyzer.trades is None
    df,        \* TradeAnalyzer.trades (rows of the DataFrame) when not None
    exported, \* SimpleTradeAnalyzer: data written by the last export_to_json call
    fileExists, \* the CSV file can be opened
    dfColumns, \* TradeAnalyzer.trades.columns when not None
    kpis, \* TradeAnalyzer.analysis_results
    runOutcome, \* run.py run_analyzer: what the step returned and the exception it caught
    monthly \* run.py run_analyzer: the local monthly (None while unbound)

vars == <<program, rows, pc, trades, loadError, scan, peaks, locals, stats, setupStats,
          raised, dfIsNone, df, exported, fileExists, dfColumns, kpis, runOutcome, monthly>>

----------------------------------------------------------------------------
(* Bounds *)

MaxRows == 3

----------------------------------------------------------------------------
(* Arithmetic helpers *)

Abs(x) == IF x < 0 THEN -x ELSE x

Max2(a, b) == IF a >= b THEN a ELSE b

Sign(n) == IF n > 0 THEN 1 ELSE IF n < 0 THEN -1 ELSE 0

RECURSIVE GCD(_, _)
GCD(a, b) == IF b = 0 THEN a ELSE GCD(b, a % b)

\* the rational n/d (d # 0) in lowest terms with positive denominator
Rat(n, d) ==
    LET g == GCD(Abs(n), Abs(d))
        s == IF d < 0 THEN -1 ELSE 1
    IN  <<(s * n) \div g, (s * d) \div g>>

FromInt(n) == <<n, 1>>

Inf == <<1, 0>>

IsFinite(q) == q[2] # 0

\* GCD(a, b), 1 when both are 0
Common(a, b) == IF a = 0 /\ b = 0 THEN 1 ELSE GCD(Abs(a), Abs(b))

\* p + q; the common factors are taken out before multiplying
RAdd(p, q) ==
    LET g == Common(p[2], q[2])
    IN  Rat(p[1] * (q[2] \div g) + q[1] * (p[2] \div g), (p[2] \div g) * q[2])

\* p * q
RMul(p, q) ==
    LET g == Common(p[1], q[2])
        h == Common(q[1], p[2])
    IN  Rat((p[1] \div g) * (q[1] \div h), (p[2] \div h) * (q[2] \div g))

\* p / q for finite p and finite non-zero q
RDiv(p, q) ==
    LET g == Common(p[1], q[1])
        h == Common(p[2], q[2])
    IN  Rat((p[1] \div g) * (q[2] \div h), (p[2] \div h) * (q[1] \div g))

RAbs(q) == <<Abs(q[1]), q[2]>>

RLess(p, q) == p[1] * q[2] < q[1] * p[2]

RLeq(p, q) == p[1] * q[2] <= q[1] * p[2]

RECURSIVE SumInts(_)
SumInts(s) == IF s = <<>> THEN 0 ELSE Head(s) + SumInts(Tail(s))

RECURSIVE SumRats(_)
SumRats(s) == IF s = <<>> THEN FromInt(0) ELSE RAdd(Head(s), SumRats(Tail(s)))

RECURSIVE MinInts(_)
MinInts(s) ==
    IF Len(s) = 1 THEN Head(s)
    ELSE LET m == MinInts(Tail(s)) IN IF Head(s) <= m THEN Head(s) ELSE m

RECURSIVE MaxInts(_)
MaxInts(s) ==
    IF Len(s) = 1 THEN Head(s)
    ELSE LET m == MaxInts(Tail(s)) IN IF Head(s) >= m THEN Head(s) ELSE m

RECURSIVE SelectIdx(_, _)
\* [x for x in s if test(x)], as the increasing sequence of the indices kept
\* from i on; keep[j] is the value of the test on the j-th element
SelectIdx(keep, i) ==
    IF i > Len(keep) THEN <<>>
    ELSE (IF keep[i] THEN <<i>> ELSE <<>>) \o SelectIdx(keep, i + 1)

\* statistics.mean of a non-empty list of integers
MeanInts(s) == Rat(SumInts(s), Len(s))

\* statistics.mean of a non-empty list of rationals
MeanRats(s) == RDiv(SumRats(s), FromInt(Len(s)))

RECURSIVE Pow2Mod(_, _)
\* 2^k mod d, by squaring while the square stays below 2^31
Pow2Mod(k, d) ==
    IF k = 0 THEN 1 % d
    ELSE IF k % 2 = 1 \/ d > 46340 THEN (2 * Pow2Mod(k - 1, d)) % d
    ELSE CHOOSE r \in {(h * h) % d : h \in {Pow2Mod(k \div 2, d)}} : TRUE

RECURSIVE ShiftUp(_, _)
\* the least t >= 0 with a * 2^t >= d
ShiftUp(a, d) == IF a >= d THEN 0 ELSE 1 + ShiftUp(2 * a, d)

RECURSIVE ShiftDown(_, _)
\* the greatest k >= 0 with d * 2^k <= a (0 when a < 2 d)
ShiftDown(a, d) == IF a < 2 * d THEN 0 ELSE 1 + ShiftDown(a, 2 * d)

\* the s with 2^52 <= |q| * 2^s < 2^53, for a finite q other than 0: the float
\* nearest to q is a multiple of 2^-s
FloatShift(q) == 52 + ShiftUp(Abs(q[1]), q[2]) - ShiftDown(Abs(q[1]), q[2])

\* the remainder of |n| * 2^s by d: |q| * 2^s lies r / d above an integer
FloatResidue(q) == ((Abs(q[1]) % q[2]) * Pow2Mod(FloatShift(q), q[2])) % q[2]

\* the integer part of |q| * 2^s is even
MantissaEven(q) ==
    ((Abs(q[1]) % (2 * q[2])) * Pow2Mod(FloatShift(q), 2 * q[2])) % (2 * q[2]) = FloatResidue(q)

\* sign of float(q) - q for a finite rational q, float(q) being the double
\* nearest to q (53 significant bits): |q| * 2^s rounded to an integer, up
\* when the remainder exceeds d / 2
DoubleError(q) ==
    IF q[1] = 0 THEN 0
    ELSE LET r == FloatResidue(q)
             g == IF q[1] < 0 THEN -1 ELSE 1
         IN  IF r = 0 THEN 0 ELSE IF 2 * r > q[2] THEN g ELSE -g

RECURSIVE Pow2(_)
Pow2(k) == IF k = 0 THEN 1 ELSE 2 * Pow2(k - 1)

\* 2^k as a rational, k of either sign
Pow2Rat(k) == IF k >= 0 THEN <<Pow2(k), 1>> ELSE <<1, Pow2(-k)>>

RECURSIVE IsPow2(_)
IsPow2(n) == n = 1 \/ (n > 1 /\ n % 2 = 0 /\ IsPow2(n \div 2))

\* no rounding error
NoError == [c |-> <<0, 1>>, s |-> 0]

\* float(q) - q, held as c * 2^-s with a rational c
FloatError(q) ==
    IF q[1] = 0 THEN NoError
    ELSE LET r == FloatResidue(q)
             g == IF q[1] < 0 THEN -1 ELSE 1
         IN  [c |-> Rat(g * (IF 2 * r < q[2] THEN -r ELSE q[2] - r), q[2]), s |-> FloatShift(q)]

\* the error x times the rational k
ErrScale(x, k) == [c |-> RMul(x.c, k), s |-> x.s]

\* the sum of two errors
ErrAdd(x, y) ==
    IF x.c[1] = 0 THEN y
    ELSE IF y.c[1] = 0 THEN x
    ELSE LET s == Max2(x.s, y.s)
         IN  [c |-> RAdd(RMul(x.c, Pow2Rat(s - x.s)), RMul(y.c, Pow2Rat(s - y.s))), s |-> s]

RECURSIVE ErrSum(_)
\* the sum of the rounding errors of the floats nearest to the rationals of qs
ErrSum(qs) == IF qs = <<>> THEN NoError ELSE ErrAdd(FloatError(Head(qs)), ErrSum(Tail(qs)))

\* the whole number nearest to the rational y; at equal distance the one that
\* keeps the mantissa even (even: the mantissa before the move is even)
Nearest(y, even) ==
    LET f  == y[1] \div y[2]
        r2 == 2 * (y[1] - f * y[2])
    IN  IF r2 < y[2] THEN f
        ELSE IF r2 > y[2] THEN f + 1
        ELSE IF (f % 2 = 0) = even THEN f ELSE f + 1

\* float(t + x) - t, for a rational t and an error x of a few units in the
\* last place of t: t lies p above a multiple of 2^-s, x moves it by e of
\* these units, and the float is the nearest multiple (the even one at equal
\* distance; below a power of two the multiples are twice as dense).  The
\* two operands are taken as values (tv, xv) before the result is computed.
PerturbedError(t, x) ==
    CHOOSE r \in
        {IF tv[1] = 0 THEN xv
         ELSE IF xv.c[1] = 0 THEN FloatError(tv)
         ELSE LET g == IF tv[1] < 0 THEN -1 ELSE 1
                  e == RMul(FromInt(g), RMul(xv.c, Pow2Rat(FloatShift(tv) - xv.s)))
                  p == Rat(FloatResidue(tv), tv[2])
                  y == RAdd(p, e)
                  k == IF IsPow2(Abs(tv[1])) /\ IsPow2(tv[2]) /\ y[1] < 0
                       THEN Rat(Nearest(RMul(FromInt(2), y), TRUE), 2)
                       ELSE FromInt(Nearest(y, MantissaEven(tv)))
              IN  [c |-> RMul(FromInt(g), RAdd(k, <<-p[1], p[2]>>)), s |-> FloatShift(tv)]
         : tv \in {t}, xv \in {x}} : TRUE

\* sign of float(t + x) - t
Perturbed(t, x) == Sign(PerturbedError(t, x).c[1])

\* sign of float(mean) - mean for statistics.mean of the floats nearest to the
\* rationals of qs: the floats are summed exactly and the quotient rounded once
MeanError(qs) ==
    Perturbed(MeanRats(qs), ErrScale(ErrSum(qs), Rat(1, Len(qs))))

\* sign of float(|a / b|) - |a / b| for the quotient of the floats nearest to
\* the rationals a and b, b not 0
QuotientError(a, b) ==
    IF a[1] = 0 THEN 0
    ELSE LET t == RAbs(RDiv(a, b))
         IN  Perturbed(t, ErrAdd(ErrScale(FloatError(a), RDiv(t, a)),
                                 ErrScale(FloatError(b), RDiv(<<-t[1], t[2]>>, b))))

\* sign of float(float(q) * k) - q * k for a whole number k: the product of
\* a rounded quotient, as in (w / n) * 100
ScaledError(q, k) ==
    Perturbed(RMul(q, FromInt(k)), ErrScale(FloatError(q), FromInt(k)))

\* sign of float(expectancy) - expectancy of line 94,
\* (win_rate / 100 * avg_win) + ((100 - win_rate) / 100 * avg_loss), each
\* operation rounded in turn and carrying the error of its operands; win_rate
\* is the float of line 83, (w / n) * 100, and the two averages are
\* statistics.mean of exact floats, rounded once; rate, aw and al are the
\* values of w / n, avg_win and avg_loss
ExpectancyError(w, n, avg_win, avg_loss) ==
    CHOOSE dir \in {-1, 0, 1} :
        \E rate \in {Rat(w, n)}, aw \in {avg_win}, al \in {avg_loss} :
        \E win_rate \in {RMul(rate, FromInt(100))} :
        \E e_rate \in {PerturbedError(win_rate, ErrScale(FloatError(rate), FromInt(100)))} :
        \E wins \in {RMul(win_rate, <<1, 100>>)} :
        \E e_wins \in {PerturbedError(wins, ErrScale(e_rate, <<1, 100>>))} :
        \E rest \in {RAdd(FromInt(100), <<-win_rate[1], win_rate[2]>>)} :
        \E e_rest \in {PerturbedError(rest, ErrScale(e_rate, FromInt(-1)))} :
        \E losses \in {RMul(rest, <<1, 100>>)} :
        \E e_losses \in {PerturbedError(losses, ErrScale(e_rest, <<1, 100>>))} :
        \E won \in {PerturbedError(RMul(wins, aw),
                                   ErrAdd(ErrScale(e_wins, aw), ErrScale(FloatError(aw), wins)))} :
        \E lost \in {PerturbedError(RMul(losses, al),
                                    ErrAdd(ErrScale(e_losses, al), ErrScale(FloatError(al), losses)))} :
            dir = Perturbed(RAdd(RMul(wins, aw), RMul(losses, al)), ErrAdd(won, lost))

\* round(x, 2) of a float x lying on the side dir of the rational q: the
\* nearest multiple of 0.01; when q is a decimal tie the float decides, and a
\* tie the float holds exactly goes to the even neighbour; inf stays inf
Round2Dir(q, dir) ==
    IF ~IsFinite(q) THEN q
    ELSE LET n100 == 100 * q[1]
             f    == n100 \div q[2]
             rem  == n100 - f * q[2]
             r    == IF 2 * rem < q[2] THEN f
                     ELSE IF 2 * rem > q[2] THEN f + 1
                     ELSE IF dir > 0 THEN f + 1
                     ELSE IF dir < 0 THEN f
                     ELSE IF f % 2 = 0 THEN f ELSE f + 1
         IN  Rat(r, 100)

\* round(x, 2) of the float nearest to q
Round2(q) == Round2Dir(q, DoubleError(q))

----------------------------------------------------------------------------
(* Cell texts of the CSV file and their conversions *)

\* value of a cell the row is too short to hold (csv.DictReader restval)
None == "<None>"

\* value of a cell whose column the header of the file does not name
Absent == "<absent>"

\* row.get(col, default)
Get(row, col, default) == IF row[col] = Absent THEN default ELSE row[col]

\* the texts explored that int() accepts
NumTexts == {"-1", "0", "1", "2", "3", "4"}

\* fixed-point scale of the float amounts: an amount x is held as x * Unit
Unit == 128

\* the float a fixed-point amount stands for
Money(x) == Rat(x, Unit)

\* the text of 1 / 128, an amount below one cent
SubCent == "0.0078125"

\* the texts explored that float() accepts
FloatTexts == NumTexts \cup {SubCent}

\* int(text)
IntOfText(t) ==
    CASE t = "-1" -> -1
      [] t = "0"  -> 0
      [] t = "1"  -> 1
      [] t = "2"  -> 2
      [] t = "3"  -> 3
      [] t = "4"  -> 4

\* float(text), in fixed point
FloatOfText(t) == IF t = SubCent THEN 1 ELSE IntOfText(t) * Unit

\* exception raised by int(cell); "" when the conversion succeeds
IntConvError(cell) ==
    IF cell = None THEN "TypeError"
    ELSE IF cell \in NumTexts THEN ""
    ELSE "ValueError"

\* exception raised by float(cell); "" when the conversion succeeds
ConvError(cell) ==
    IF cell = None THEN "TypeError"
    ELSE IF cell \in FloatTexts THEN ""
    ELSE "ValueError"

\* exception raised by the conversion the loader applies to the cell of column col
CellError(col, cell) == IF col = "quantity" THEN IntConvError(cell) ELSE ConvError(cell)

\* variant: the side is compared as written
Lower_id(t) == t

\* str.lower() of the side texts explored
Lower(t) ==
    CASE t = "LONG"  -> "long"
      [] t = "Long"  -> "long"
      [] t = "LoNg"  -> "long"
      [] t = "SHORT" -> "short"
      [] t = "Short" -> "short"
      [] OTHER       -> t

\* date texts in YYYY-MM-DD form, listed in increasing character order
DateTexts == <<"2024-01-01", "2024-01-02", "2024-02-01">>

TextPos(t) == CHOOSE i \in 1..Len(DateTexts) : DateTexts[i] = t

\* Python's < on two date strings
StrLess(a, b) == TextPos(a) < TextPos(b)

\* the calendar date <<year, month, day>> a date text denotes
CalendarOf(t) ==
    CASE t = "2024-01-01" -> <<2024, 1, 1>>
      [] t = "2024-01-02" -> <<2024, 1, 2>>
      [] t = "2024-02-01" -> <<2024, 2, 1>>

CalendarLess(a, b) ==
    \/ a[1] < b[1]
    \/ a[1] = b[1] /\ a[2] < b[2]
    \/ a[1] = b[1] /\ a[2] = b[2] /\ a[3] < b[3]

----------------------------------------------------------------------------
(* Input files *)

Dates == {DateTexts[i] : i \in 1..Len(DateTexts)}

BaseRow ==
    [date |-> "2024-01-01", time |-> "09:30", symbol |-> "AAPL", side |-> "long",
     entry_price |-> "2", exit_price |-> "3", quantity |-> "1", commission |-> "0",
     risk_amount |-> "0", stop_loss |-> "1", setup |-> "A", strategy |-> Absent,
     notes |-> ""]

\* a long trade of one unit entered at 2: exit texts "1", "2", "3", "4" give
\* net_pnl -1, 0, 1, 2
LongRow(d, x) == [BaseRow EXCEPT !.date = d, !.exit_price = x]

\* a row too short to hold the columns from exit_price on
ShortRow ==
    [BaseRow EXCEPT !.exit_price = None, !.quantity = None, !.commission = None,
                    !.risk_amount = None, !.setup = None, !.notes = None]

\* a row too short to hold the columns setup and notes
NoSetupRow == [BaseRow EXCEPT !.setup = None, !.notes = None]

\* a row of a file whose header has no setup column
AbsentSetupRow == [BaseRow EXCEPT !.setup = Absent]

\* a row whose quantity is not the text of an integer
FractionRow == [BaseRow EXCEPT !.quantity = SubCent]

\* rows whose side is 'long' in another casing, padded or misspelled, empty,
\* or 'short' in another casing
SideRows ==
    {[BaseRow EXCEPT !.side = sd, !.exit_price = x] :
        sd \in {"Long", "LoNg", " long", "lnog", "", "SHORT"}, x \in {"1", "3"}}

\* rows of the multi-row files: a losing and a winning long trade on one date,
\* a flat one on the next, a later winning trade with a risk amount and no
\* setup, a later short trade with a commission below one cent, and a row
\* whose entry price does not parse
SeriesRows ==
    {LongRow("2024-01-01", x) : x \in {"1", "4"}}
    \cup {LongRow("2024-01-02", x) : x \in {"2"}}
    \cup {[BaseRow EXCEPT !.date = "2024-02-01", !.exit_price = "4", !.risk_amount = "2",
                          !.setup = ""],
          [BaseRow EXCEPT !.date = "2024-02-01", !.side = "short", !.commission = SubCent,
                          !.risk_amount = "2", !.setup = "B"],
          [BaseRow EXCEPT !.entry_price = "abc"]}

\* rows of the one-row files: all combinations of the per-record columns
RecordRows ==
    {[BaseRow EXCEPT !.side = sd, !.entry_price = en, !.exit_price = ex, !.quantity = q,
                     !.commission = c, !.risk_amount = rk] :
        sd \in {"long", "Short"},
        en \in {"0", "2", "abc"},
        ex \in {"1", "2", "3", ""},
        q  \in {"-1", "1", "abc"},
        c  \in {"0", "1"},
        rk \in {"0", "2"}}

RECURSIVE SeqsUpTo(_, _)
SeqsUpTo(S, n) ==
    IF n = 0 THEN {<<>>}
    ELSE LET shorter == SeqsUpTo(S, n - 1)
         IN  shorter \cup {Append(s, x) : s \in {t \in shorter : Len(t) = n - 1}, x \in S}

\* the files explored: the files of up to MaxRows pairwise different rows of
\* SeriesRows, and the one-row files of the other rows
Files ==
    {f \in SeqsUpTo(SeriesRows, MaxRows) : \A i, j \in 1..Len(f) : f[i] = f[j] => i = j}
    \cup {<<r>> : r \in RecordRows}
    \cup {<<ShortRow>>, <<NoSetupRow>>, <<AbsentSetupRow>>, <<FractionRow>>}
    \cup {<<r>> : r \in SideRows}

NumericColumns == {"entry_price", "exit_price", "quantity", "commission", "risk_amount", "stop_loss"}

\* the columns the header of the file names
HeaderOf(rs) == {c \in DOMAIN BaseRow : rs = <<>> \/ rs[1][c] # Absent}

\* the row in a file that names the category column strategy, as
\* calculate_kpis reads it
StrategyRow(row) == [row EXCEPT !.strategy = row.setup, !.setup = Absent]

\* a date cell to_datetime cannot parse
BadDate == "not-a-date"

\* rows of the files whose header lacks a column the pandas loader reads, or
\* whose date does not parse
SchemaRows ==
    {BaseRow,
     [StrategyRow(BaseRow) EXCEPT !.time = Absent],
     [StrategyRow(BaseRow) EXCEPT !.stop_loss = Absent],
     [StrategyRow(BaseRow) EXCEPT !.date = BadDate]}

\* files on which the pandas metrics divide by -0.0: a stop loss at a
\* negative entry price (risk_pct = 0 / -1 * 100), and a first trade whose
\* net_pnl is 0 * -1.0, the quantity column being float
NegZeroFiles ==
    {<<[StrategyRow(BaseRow) EXCEPT !.entry_price = "-1", !.stop_loss = "-1", !.exit_price = x]>> :
        x \in {"-1", "1"}}
    \cup {<<[StrategyRow(BaseRow) EXCEPT !.exit_price = "2", !.quantity = "-1"],
            [StrategyRow(BaseRow) EXCEPT !.date = "2024-01-02", !.exit_price = "1",
                                         !.quantity = q]>> : q \in {SubCent, "1"}}

\* files on which a pandas metric divides a column of dtype object by 0: the
\* text "abc" sits in exit_price or stop_loss beside a missing entry price,
\* so the difference is a column of NaN objects, and the next row has the
\* entry price 0 (lines 43 and 46) or an entry price equal to the stop loss
\* (risk_pct 0, line 47)
ZeroDivFiles ==
    {<<[StrategyRow(BaseRow) EXCEPT !.entry_price = "", !.exit_price = "abc"],
       [StrategyRow(BaseRow) EXCEPT !.entry_price = en, !.exit_price = ""]>> : en \in {"0", "1"}}
    \cup {<<[StrategyRow(BaseRow) EXCEPT !.entry_price = "", !.stop_loss = "abc"],
            [StrategyRow(BaseRow) EXCEPT !.entry_price = "0", !.stop_loss = ""]>>}

\* the files the pandas program is explored on: the files of Files with the
\* category in a strategy column, one-row and two-row files of each other
\* schema, and the files of NegZeroFiles and ZeroDivFiles
FrameFiles ==
    {[i \in 1..Len(f) |-> StrategyRow(f[i])] : f \in Files}
    \cup {<<r>> : r \in SchemaRows}
    \cup {<<r, [r EXCEPT !.exit_price = "1"]>> : r \in SchemaRows}
    \cup NegZeroFiles
    \cup ZeroDivFiles

EmptyDict == [k \in {} |-> 0]

\* a run starts with one of the two programs and one file, or with the path
\* of a file that cannot be opened
Init ==
    /\ program \in {"simple", "pandas"}
    /\ rows \in IF program = "simple" THEN Files ELSE FrameFiles
    /\ fileExists \in IF rows = <<>> THEN BOOLEAN ELSE {TRUE}
    /\ pc = "start"
    /\ trades = <<>>
    /\ loadError = ""
    /\ scan = <<>>
    /\ peaks = <<>>
    /\ locals = EmptyDict
    /\ stats = EmptyDict
    /\ setupStats = <<>>
    /\ raised = ""
    /\ dfIsNone = TRUE
    /\ df = <<>>
    /\ exported = EmptyDict
    /\ dfColumns = {}
    /\ kpis = EmptyDict
    /\ runOutcome = EmptyDict
    /\ monthly = None

----------------------------------------------------------------------------
(* SimpleTradeAnalyzer.load_trades *)

\* the conversions of the dict literal, in evaluation order
LoadColumns == <<"entry_price", "exit_price", "quantity", "commission", "risk_amount">>

\* exception raised while building the trade of this row ("" = none)
RowError(row) ==
    LET bad == {i \in 1..Len(LoadColumns) :
                   CellError(LoadColumns[i], row[LoadColumns[i]]) # ""}
        b   == CHOOSE i \in bad : \A j \in bad : i <= j
    IN  IF bad = {} THEN "" ELSE CellError(LoadColumns[b], row[LoadColumns[b]])

\* the trade dict built from a row whose conversions succeed
TradeOf(row) ==
    [date         |-> row.date,
     symbol       |-> row.symbol,
     side         |-> row.side,
     entry_price  |-> FloatOfText(row.entry_price),
     exit_price   |-> FloatOfText(row.exit_price),
     quantity     |-> IntOfText(row.quantity),
     commission   |-> FloatOfText(row.commission),
     risk_amount  |-> FloatOfText(row.risk_amount),
     setup        |-> Get(row, "setup", ""),
     notes        |-> Get(row, "notes", "")]

\* index of the first row whose conversion raises, Len + 1 when none does
FirstBadRow(rs) ==
    LET bad == {i \in 1..Len(rs) : RowError(rs[i]) # ""}
    IN  IF bad = {} THEN Len(rs) + 1 ELSE CHOOSE i \in bad : \A j \in bad : i <= j

\* self.trades when load_trades returns: the rows before the first one that raises
LoadedTrades(rs) == [i \in 1..(FirstBadRow(rs) - 1) |-> TradeOf(rs[i])]

\* the exception the except clause caught and printed ("" = none)
LoadFailure(rs) ==
    IF FirstBadRow(rs) > Len(rs) THEN "" ELSE RowError(rs[FirstBadRow(rs)])

\* positions at which the constructor has returned and the methods can be called
Constructed == {"ready", "reloaded", "recalculated", "stats", "setups", "printed", "exported"}

\* __init__ sets self.trades = [] and calls load_trades; the method can be
\* called again on the constructed analyzer (here with the same file, while
\* the list stays within MaxRows records).  Rows are appended to self.trades
\* until one raises (or open() raises); the except clause prints the error
\* and the method returns
load_trades ==
    /\ program = "simple"
    /\ \/ pc = "start"
       \/ pc \in Constructed /\ Len(trades) + Len(LoadedTrades(rows)) <= MaxRows
    /\ trades' = trades \o (IF fileExists THEN LoadedTrades(rows) ELSE <<>>)
    /\ loadError' = IF fileExists THEN LoadFailure(rows) ELSE "FileNotFoundError"
    /\ raised' = ""
    /\ pc' = IF pc = "start" THEN "loaded" ELSE "reloaded"
    /\ UNCHANGED <<program, rows, scan, peaks, locals, stats, setupStats, dfIsNone, df,
                   exported, fileExists, dfColumns, kpis, runOutcome, monthly>>

----------------------------------------------------------------------------
(* SimpleTradeAnalyzer.calculate_metrics *)

\* the dict t after the assignments t[k] = upd[k]
Assign(t, upd) ==
    [k \in DOMAIN t \cup DOMAIN upd |-> IF k \in DOMAIN upd THEN upd[k] ELSE t[k]]

GrossPnl(t) ==
    IF Lower(t.side) = "long"
    THEN (t.exit_price - t.entry_price) * t.quantity
    ELSE (t.entry_price - t.exit_price) * t.quantity

NetPnl(t) == GrossPnl(t) - t.commission

\* variant: a flat trade counted as a winner
IsWinner_flat(t) == NetPnl(t) >= 0

IsWinner(t) == NetPnl(t) > 0

\* variant: the R-multiple taken from the net instead of the gross P&L
RMultiple_net(t) ==
    IF t.risk_amount > 0 THEN Rat(NetPnl(t), t.risk_amount) ELSE FromInt(0)

RMultiple(t) ==
    IF t.risk_amount > 0 THEN Rat(GrossPnl(t), t.risk_amount) ELSE FromInt(0)

\* variant: the side is normalised in place
TradeMetrics_side(t) ==
    Assign(t, [side       |-> Lower(t.side),
               gross_pnl  |-> GrossPnl(t),
               net_pnl    |-> NetPnl(t),
               is_winner  |-> IsWinner(t),
               r_multiple |-> RMultiple(t)])

\* first loop: the per-trade fields
TradeMetrics(t) ==
    Assign(t, [gross_pnl  |-> GrossPnl(t),
               net_pnl    |-> NetPnl(t),
               is_winner  |-> IsWinner(t),
               r_multiple |-> RMultiple(t)])

RECURSIVE InsertByDate_ties(_, _, _)
\* variant: an index is placed in front of the indices with an equal date
InsertByDate_ties(order, i, ts) ==
    IF order = <<>> THEN <<i>>
    ELSE IF ~StrLess(ts[Head(order)].date, ts[i].date)
         THEN <<i>> \o order
         ELSE <<Head(order)>> \o InsertByDate_ties(Tail(order), i, ts)

RECURSIVE InsertByDate(_, _, _)
\* place index i behind every index whose date is not greater (stable)
InsertByDate(order, i, ts) ==
    IF order = <<>> THEN <<i>>
    ELSE IF StrLess(ts[i].date, ts[Head(order)].date)
         THEN <<i>> \o order
         ELSE <<Head(order)>> \o InsertByDate(Tail(order), i, ts)

RECURSIVE SortedByDate(_, _)
\* sorted(self.trades, key=lambda x: x['date']) over the first n trades, as indices
SortedByDate(ts, n) ==
    IF n = 0 THEN <<>> ELSE InsertByDate(SortedByDate(ts, n - 1), n, ts)

RECURSIVE CumAfter_gross(_, _, _)
\* variant: the equity curve accumulates the gross P&L
CumAfter_gross(order, ts, k) ==
    IF k = 0 THEN 0 ELSE CumAfter_gross(order, ts, k - 1) + GrossPnl(ts[order[k]])

RECURSIVE CumAfter(_, _, _)
\* the local cumulative_pnl after k steps of the scan
CumAfter(order, ts, k) ==
    IF k = 0 THEN 0 ELSE CumAfter(order, ts, k - 1) + NetPnl(ts[order[k]])

RECURSIVE PeakAfter_first(_, _, _)
\* variant: the peak starts at the first cumulative value instead of 0
PeakAfter_first(order, ts, k) ==
    IF k = 0 THEN 0
    ELSE IF k = 1 THEN CumAfter(order, ts, 1)
    ELSE Max2(PeakAfter_first(order, ts, k - 1), CumAfter(order, ts, k))

RECURSIVE PeakAfter_net(_, _, _)
\* variant: the peak follows the net_pnl of the trades, not the cumulative value
PeakAfter_net(order, ts, k) ==
    IF k = 0 THEN 0 ELSE Max2(PeakAfter_net(order, ts, k - 1), NetPnl(ts[order[k]]))

RECURSIVE PeakAfter(_, _, _)
\* the local peak after k steps of the scan
PeakAfter(order, ts, k) ==
    IF k = 0 THEN 0 ELSE Max2(PeakAfter(order, ts, k - 1), CumAfter(order, ts, k))

\* step of the scan that visits trade i
StepOf(order, i) == CHOOSE k \in 1..Len(order) : order[k] = i

\* self.trades when calculate_metrics returns
WithMetrics(ts) ==
    LET order == SortedByDate(ts, Len(ts))
    IN  [i \in 1..Len(ts) |->
            LET k == StepOf(order, i)
            IN  Assign(TradeMetrics(ts[i]),
                       [cumulative_pnl |-> CumAfter(order, ts, k),
                        drawdown       |-> CumAfter(order, ts, k) - PeakAfter(order, ts, k)])]

\* __init__ calls calculate_metrics after load_trades; called again, it
\* recomputes the derived fields of every record and returns
calculate_metrics ==
    /\ program = "simple"
    /\ pc \in {"loaded"} \cup Constructed
    /\ scan' = SortedByDate(trades, Len(trades))
    /\ peaks' = [k \in 1..Len(trades) |->
                     PeakAfter(SortedByDate(trades, Len(trades)), trades, k)]
    /\ trades' = WithMetrics(trades)
    /\ raised' = ""
    /\ pc' = IF pc = "loaded" THEN "ready" ELSE "recalculated"
    /\ UNCHANGED <<program, rows, loadError, locals, stats, setupStats, dfIsNone, df,
                   exported, fileExists, dfColumns, kpis, runOutcome, monthly>>

----------------------------------------------------------------------------
(* SimpleTradeAnalyzer.get_basic_stats *)

\* every record carries the fields calculate_metrics sets
Enriched(ts) == \A i \in 1..Len(ts) : "is_winner" \in DOMAIN ts[i]

\* t['is_winner'] of a record appended after the last calculate_metrics raises
\* KeyError in the first comprehension over the records ("" = none)
StatsError(ts) == IF Enriched(ts) THEN "" ELSE "KeyError"

NetPnls(ts) == [i \in 1..Len(ts) |-> ts[i].net_pnl]

Pick(s, idx) == [j \in 1..Len(idx) |-> s[idx[j]]]

\* statistics.mean of a non-empty list of amounts
MeanMoney(s) == RDiv(MeanInts(s), FromInt(Unit))

\* (count / total) * 100
WinRate(count, total) == Rat(100 * count, total)

\* [t for t in ts if t['is_winner']], as indices
Winners(ts) == SelectIdx([i \in 1..Len(ts) |-> ts[i].is_winner], 1)

\* [t for t in ts if not t['is_winner']], as indices
Losers(ts) == SelectIdx([i \in 1..Len(ts) |-> ~ts[i].is_winner], 1)

\* variant: the mean of the winners taken over all the trades
AvgWin_all(ts) ==
    IF Winners(ts) # <<>>
    THEN RDiv(Money(SumInts(Pick(NetPnls(ts), Winners(ts)))), FromInt(Len(ts)))
    ELSE FromInt(0)

AvgWin(ts) ==
    IF Winners(ts) # <<>> THEN MeanMoney(Pick(NetPnls(ts), Winners(ts))) ELSE FromInt(0)

\* variant: the average loss taken over the trades with net_pnl < 0 only
AvgLoss_strict(ts) ==
    LET neg == SelectIdx([i \in 1..Len(ts) |-> ts[i].net_pnl < 0], 1)
    IN  IF neg # <<>> THEN MeanMoney(Pick(NetPnls(ts), neg)) ELSE FromInt(0)

AvgLoss(ts) ==
    IF Losers(ts) # <<>> THEN MeanMoney(Pick(NetPnls(ts), Losers(ts))) ELSE FromInt(0)

\* variant: a zero average loss gives the ratio 0
PayoffRatio_zero(avg_win, avg_loss) ==
    IF avg_loss # FromInt(0) THEN RAbs(RDiv(avg_win, avg_loss)) ELSE FromInt(0)

\* abs(avg_win / avg_loss) if avg_loss != 0 else float('inf')
PayoffRatio(avg_win, avg_loss) ==
    IF avg_loss # FromInt(0) THEN RAbs(RDiv(avg_win, avg_loss)) ELSE Inf

\* variant: the expectancy taken from the win rate rounded to two decimals
Expectancy_rounded(win_rate, avg_win, avg_loss) ==
    RAdd(RMul(RDiv(Round2(win_rate), FromInt(100)), avg_win),
         RMul(RDiv(RAdd(FromInt(100), <<-Round2(win_rate)[1], Round2(win_rate)[2]>>),
                   FromInt(100)), avg_loss))

\* (win_rate/100 * avg_win) + ((100-win_rate)/100 * avg_loss)
Expectancy(win_rate, avg_win, avg_loss) ==
    RAdd(RMul(RDiv(win_rate, FromInt(100)), avg_win),
         RMul(RDiv(RAdd(FromInt(100), <<-win_rate[1], win_rate[2]>>),
                   FromInt(100)), avg_loss))

\* max([c for c in cumulative_pnl if c > 0] or [1])
TopCumulative(ts) ==
    LET cums == [i \in 1..Len(ts) |-> ts[i].cumulative_pnl]
        pos  == SelectIdx([i \in 1..Len(ts) |-> cums[i] > 0], 1)
    IN  IF pos = <<>> THEN 1 * Unit ELSE MaxInts(Pick(cums, pos))

\* the local variables of get_basic_stats when it reaches its return statement
\* (ts not empty)
StatsLocals(ts) ==
    LET total_trades   == Len(ts)
        winning_trades == Len(Winners(ts))
        losing_trades  == Len(Losers(ts))
        win_rate       == WinRate(winning_trades, total_trades)
        avg_win        == AvgWin(ts)
        avg_loss       == AvgLoss(ts)
        max_drawdown   == MinInts([i \in 1..Len(ts) |-> ts[i].drawdown])
    IN  [total_trades     |-> total_trades,
         winning_trades   |-> winning_trades,
         losing_trades    |-> losing_trades,
         win_rate         |-> win_rate,
         avg_win          |-> avg_win,
         avg_loss         |-> avg_loss,
         payoff_ratio     |-> PayoffRatio(avg_win, avg_loss),
         total_pnl        |-> Money(SumInts(NetPnls(ts))),
         total_commission |-> Money(SumInts([i \in 1..Len(ts) |-> ts[i].commission])),
         expectancy       |-> Expectancy(win_rate, avg_win, avg_loss),
         avg_r            |-> MeanRats([i \in 1..Len(ts) |-> ts[i].r_multiple]),
         max_drawdown     |-> Money(max_drawdown),
         max_dd_pct       |-> Rat(100 * max_drawdown, TopCumulative(ts))]

\* the locals of the early return: none is assigned
LocalsOf(ts) == IF ts = <<>> THEN EmptyDict ELSE StatsLocals(ts)

\* the dict get_basic_stats returns: the locals v, each rounded as its float
BasicStats(ts) ==
    IF ts = <<>> THEN EmptyDict
    ELSE CHOOSE d \in
        {[total_trades     |-> v.total_trades,
          winning_trades   |-> v.winning_trades,
          losing_trades    |-> v.losing_trades,
          win_rate         |-> Round2Dir(v.win_rate,
                                         ScaledError(Rat(v.winning_trades, v.total_trades), 100)),
          avg_win          |-> Round2(v.avg_win),
          avg_loss         |-> Round2(v.avg_loss),
          payoff_ratio     |-> IF IsFinite(v.payoff_ratio)
                               THEN Round2Dir(v.payoff_ratio, QuotientError(v.avg_win, v.avg_loss))
                               ELSE v.payoff_ratio,
          total_pnl        |-> Round2(v.total_pnl),
          total_commission |-> Round2(v.total_commission),
          expectancy       |-> Round2Dir(v.expectancy,
                                         ExpectancyError(v.winning_trades, v.total_trades,
                                                         v.avg_win, v.avg_loss)),
          avg_r_multiple   |-> Round2Dir(v.avg_r, MeanError([i \in 1..Len(ts) |-> ts[i].r_multiple])),
          max_drawdown     |-> Round2(v.max_drawdown),
          max_drawdown_pct |-> Round2Dir(v.max_dd_pct,
                                         ScaledError(RDiv(v.max_drawdown, Money(TopCumulative(ts))), 100))]
         : v \in {StatsLocals(ts)}} : TRUE

get_basic_stats ==
    /\ program = "simple"
    /\ pc \in Constructed
    /\ locals' = IF StatsError(trades) = "" THEN LocalsOf(trades) ELSE locals
    /\ stats' = IF StatsError(trades) = "" THEN BasicStats(trades) ELSE stats
    /\ raised' = StatsError(trades)
    /\ pc' = "stats"
    /\ UNCHANGED <<program, rows, trades, loadError, scan, peaks, setupStats, dfIsNone, df, exported,
                   fileExists, dfColumns, kpis, runOutcome, monthly>>

----------------------------------------------------------------------------
(* SimpleTradeAnalyzer.get_setup_stats *)

\* trade['setup'] or 'no_setup'
SetupKey(t) == IF t.setup = None \/ t.setup = "" THEN "no_setup" ELSE t.setup

RECURSIVE SetupKeys_all(_, _)
\* variant: every trade opens a group of its own key
SetupKeys_all(ts, n) ==
    IF n = 0 THEN <<>> ELSE Append(SetupKeys_all(ts, n - 1), SetupKey(ts[n]))

RECURSIVE SetupKeys(_, _)
\* the keys of setup_data after the first n trades, in insertion order
SetupKeys(ts, n) ==
    IF n = 0 THEN <<>>
    ELSE LET ks == SetupKeys(ts, n - 1)
         IN  IF \E j \in 1..Len(ks) : ks[j] = SetupKey(ts[n]) THEN ks
             ELSE Append(ks, SetupKey(ts[n]))

\* setup_data[key], as indices into self.trades
GroupOf(ts, key) == SelectIdx([i \in 1..Len(ts) |-> SetupKey(ts[i]) = key], 1)

\* results[key]; the field setup holds the key of the entry
SetupEntry(ts, key) ==
    CHOOSE entry \in
        {LET total_pnl == SumInts(NetPnls(g))
         IN  [setup     |-> key,
              trades    |-> Len(g),
              winners   |-> Len(Winners(g)),
              total_pnl |-> Round2(Money(total_pnl)),
              avg_pnl   |-> Round2(RDiv(Money(total_pnl), FromInt(Len(g)))),
              win_rate  |-> Round2Dir(WinRate(Len(Winners(g)), Len(g)),
                                      ScaledError(Rat(Len(Winners(g)), Len(g)), 100)),
              avg_r     |-> Round2Dir(MeanRats([i \in 1..Len(g) |-> g[i].r_multiple]),
                                      MeanError([i \in 1..Len(g) |-> g[i].r_multiple]))]
         : g \in {Pick(ts, GroupOf(ts, key))}} : TRUE

\* the dict get_setup_stats returns, as the sequence of its entries in the
\* order a loop over the dict visits them (insertion order)
SetupStats(ts) ==
    LET keys == SetupKeys(ts, Len(ts))
    IN  [j \in 1..Len(keys) |-> SetupEntry(ts, keys[j])]

get_setup_stats ==
    /\ program = "simple"
    /\ pc \in Constructed
    /\ setupStats' = IF StatsError(trades) = "" THEN SetupStats(trades) ELSE setupStats
    /\ raised' = StatsError(trades)
    /\ pc' = "setups"
    /\ UNCHANGED <<program, rows, trades, loadError, scan, peaks, locals, stats, dfIsNone, df,
                   exported, fileExists, dfColumns, kpis, runOutcome, monthly>>

----------------------------------------------------------------------------
(* SimpleTradeAnalyzer.print_summary *)

\* stats = self.get_basic_stats(); the first f-string reads stats['total_trades'],
\* which raises KeyError when the dict is empty; the trade list formats
\* trade['setup'] with '<12', which raises TypeError when the value is None
PrintError(ts) ==
    IF StatsError(ts) # "" THEN StatsError(ts)
    ELSE IF "total_trades" \notin DOMAIN BasicStats(ts) THEN "KeyError"
    ELSE IF \E i \in 1..Len(ts) : ts[i].setup = None THEN "TypeError"
    ELSE ""

\* get_setup_stats is called after the summary lines are printed
print_summary ==
    /\ program = "simple"
    /\ pc \in Constructed
    /\ locals' = IF StatsError(trades) = "" THEN LocalsOf(trades) ELSE locals
    /\ stats' = IF StatsError(trades) = "" THEN BasicStats(trades) ELSE stats
    /\ setupStats' = IF PrintError(trades) = "KeyError" THEN setupStats ELSE SetupStats(trades)
    /\ raised' = PrintError(trades)
    /\ pc' = "printed"
    /\ UNCHANGED <<program, rows, trades, loadError, scan, peaks, dfIsNone, df, exported, fileExists,
                   dfColumns, kpis, runOutcome, monthly>>

----------------------------------------------------------------------------
(* SimpleTradeAnalyzer.export_to_json *)

\* the dict handed to json.dump
ExportData(ts) ==
    [summary |-> BasicStats(ts), setup_analysis |-> SetupStats(ts), trades |-> ts]

export_to_json ==
    /\ program = "simple"
    /\ pc \in Constructed
    /\ locals' = IF StatsError(trades) = "" THEN LocalsOf(trades) ELSE locals
    /\ stats' = IF StatsError(trades) = "" THEN BasicStats(trades) ELSE stats
    /\ setupStats' = IF StatsError(trades) = "" THEN SetupStats(trades) ELSE setupStats
    /\ exported' = IF StatsError(trades) = "" THEN ExportData(trades) ELSE exported
    /\ raised' = StatsError(trades)
    /\ pc' = "exported"
    /\ UNCHANGED <<program, rows, trades, loadError, scan, peaks, dfIsNone, df, fileExists, dfColumns,
                   kpis, runOutcome, monthly>>

----------------------------------------------------------------------------
(* TradeAnalyzer.load_trades and _calculate_trade_metrics (pandas) *)

NaN == <<0, 0>>

\* the float -0.0: a zero keeps its sign in the denominator, <<0, 1>> is +0.0
NegZero == <<0, -1>>

\* the float is +0.0 or -0.0
IsZero(p) == p[1] = 0 /\ p[2] # 0

\* the sign bit of a float that is not NaN
SignBit(p) == p[1] < 0 \/ (p[1] = 0 /\ p[2] < 0)

\* the zero with the sign bit neg
Zero(neg) == IF neg THEN NegZero ELSE FromInt(0)

\* the rational a finite float stands for: both zeros are 0
Val(p) == IF IsZero(p) THEN FromInt(0) ELSE p

\* -x
FNeg(p) == IF IsZero(p) THEN Zero(~SignBit(p)) ELSE <<-p[1], p[2]>>

\* float division as numpy performs it: no exception, inf and NaN results;
\* the sign of a zero or infinite result is the product of the operands' signs
FDiv(p, q) ==
    LET neg == SignBit(p) # SignBit(q)
    IN  IF p = NaN \/ q = NaN THEN NaN
        ELSE IF IsFinite(p) /\ IsFinite(q)
             THEN IF IsZero(q) THEN (IF IsZero(p) THEN NaN ELSE <<IF neg THEN -1 ELSE 1, 0>>)
                  ELSE IF IsZero(p) THEN Zero(neg)
                  ELSE RDiv(p, q)
        ELSE IF ~IsFinite(p) /\ ~IsFinite(q) THEN NaN
        ELSE IF ~IsFinite(p) THEN <<IF neg THEN -1 ELSE 1, 0>>
        ELSE Zero(neg)

\* float multiplication: inf * 0 is NaN, a zero product has the product of
\* the signs
FMul(p, q) ==
    LET neg == SignBit(p) # SignBit(q)
    IN  IF p = NaN \/ q = NaN THEN NaN
        ELSE IF IsFinite(p) /\ IsFinite(q)
             THEN IF IsZero(p) \/ IsZero(q) THEN Zero(neg) ELSE RMul(p, q)
        ELSE IF IsZero(p) \/ IsZero(q) THEN NaN
        ELSE <<IF neg THEN -1 ELSE 1, 0>>

\* x * 100
FTimes100(p) == FMul(p, FromInt(100))

\* float addition: inf - inf is NaN; a zero sum is -0.0 only when both
\* operands are -0.0
FAdd(p, q) ==
    IF p = NaN \/ q = NaN THEN NaN
    ELSE IF IsFinite(p) /\ IsFinite(q)
         THEN IF IsZero(p) /\ IsZero(q) THEN Zero(SignBit(p) /\ SignBit(q))
              ELSE RAdd(Val(p), Val(q))
    ELSE IF ~IsFinite(p) /\ ~IsFinite(q) THEN (IF p = q THEN p ELSE NaN)
    ELSE IF ~IsFinite(p) THEN p
    ELSE q

\* p < q for floats that are not NaN; -0.0 is not less than +0.0
FLess(p, q) ==
    IF ~IsFinite(p) /\ ~IsFinite(q) THEN p[1] < q[1] ELSE RLess(Val(p), Val(q))

\* float subtraction
FSub(p, q) == FAdd(p, FNeg(q))

\* abs() of a float
FAbs(p) == <<Abs(p[1]), Abs(p[2])>>

\* a text cell of the frame: the text s, times times in a row (a text that
\* an integer multiplied)
Text(s, times) == <<[text |-> IF times > 0 THEN s ELSE "", times |-> Max2(times, 0)]>>

\* the cell of the frame is a text object (a number is a pair)
IsText(x) == Len(x) = 1

\* the operation on two cells raised TypeError
Raised == <<0, 0, 0>>

\* a cell read_csv takes for a missing value
IsMissing(cell) == cell = "" \/ cell = None

\* read_csv leaves the column as text: some cell is neither missing nor a number
ColumnIsText(rs, c) ==
    \E i \in 1..Len(rs) : ~IsMissing(rs[i][c]) /\ rs[i][c] \notin FloatTexts

\* read_csv makes the column int64: every cell is the text of an integer
ColumnIsInt(rs, c) == \A i \in 1..Len(rs) : rs[i][c] \in NumTexts

\* the value read_csv gives a cell of column c of the file rs: a column of
\* numbers and missing cells becomes numeric, the missing cells NaN; in a
\* column left as text every cell keeps its text, the missing ones are NaN
FrameCell(rs, c, cell) ==
    IF c \notin NumericColumns THEN cell
    ELSE IF IsMissing(cell) THEN NaN
    ELSE IF ColumnIsText(rs, c) THEN Text(cell, 1)
    ELSE Money(FloatOfText(cell))

\* row i of the frame read_csv builds: one value per column of the header
FrameRow(rs, i) ==
    [c \in {k \in DOMAIN rs[i] : rs[i][k] # Absent} |-> FrameCell(rs, c, rs[i][c])]

\* x - y on two cells: a missing operand gives NaN, a text raises
CellSub(x, y) ==
    IF x = NaN \/ y = NaN THEN NaN
    ELSE IF IsText(x) \/ IsText(y) THEN Raised
    ELSE FSub(x, y)

\* x / y on two cells
CellDiv(x, y) ==
    IF x = NaN \/ y = NaN THEN NaN
    ELSE IF IsText(x) \/ IsText(y) THEN Raised
    ELSE FDiv(x, y)

\* x * y for a number x and a cell y: an int64 x repeats a text, a float x
\* raises on it; the product of two int64 is an int64, whose zero has no sign
CellMul(x, y, xIsInt, yIsInt) ==
    IF x = NaN \/ y = NaN THEN NaN
    ELSE IF IsText(y)
         THEN IF xIsInt THEN Text(y[1].text, y[1].times * x[1]) ELSE Raised
    ELSE IF xIsInt /\ yIsInt THEN Val(FMul(x, y))
    ELSE FMul(x, y)

\* the assignments of _calculate_trade_metrics in order, each with the
\* columns it reads, the column it divides by ("" = no division) and the
\* columns of the file that the two operands of the division are computed from
MetricSteps ==
    <<[col |-> "price_diff", reads |-> {"exit_price", "entry_price"}, over |-> "", from |-> {}],
      [col |-> "gross_pnl",  reads |-> {"price_diff", "quantity"}, over |-> "", from |-> {}],
      [col |-> "net_pnl",    reads |-> {"gross_pnl", "commission"}, over |-> "", from |-> {}],
      [col |-> "return_pct", reads |-> {"price_diff", "entry_price"}, over |-> "entry_price",
       from |-> {"exit_price", "entry_price"}],
      [col |-> "risk_pct",   reads |-> {"entry_price", "stop_loss"}, over |-> "entry_price",
       from |-> {"entry_price", "stop_loss"}],
      [col |-> "r_multiple", reads |-> {"return_pct", "risk_pct"}, over |-> "risk_pct",
       from |-> {"exit_price", "entry_price", "stop_loss"}],
      [col |-> "is_win",     reads |-> {"net_pnl"}, over |-> "", from |-> {}],
      [col |-> "is_loss",    reads |-> {"net_pnl"}, over |-> "", from |-> {}]>>

\* the value load_trades and _calculate_trade_metrics give row r in column c;
\* ints: the int64 columns of the file
MetricValue(r, c, ints) ==
    LET price_diff == CellSub(r.exit_price, r.entry_price)
        gross_pnl  == CellMul(price_diff, r.quantity,
                              {"exit_price", "entry_price"} \subseteq ints, "quantity" \in ints)
        net_pnl    == CellSub(gross_pnl, r.commission)
        ratio      == CellDiv(price_diff, r.entry_price)
        return_pct == IF ratio = Raised THEN Raised ELSE FTimes100(ratio)
        diff       == CellSub(r.entry_price, r.stop_loss)
        risk       == IF diff = Raised THEN Raised ELSE CellDiv(FAbs(diff), r.entry_price)
        risk_pct   == IF risk = Raised THEN Raised ELSE FTimes100(risk)
    IN  CASE c = "datetime"   -> <<r.date, r.time>>
          [] c = "price_diff" -> price_diff
          [] c = "gross_pnl"  -> gross_pnl
          [] c = "net_pnl"    -> net_pnl
          [] c = "return_pct" -> return_pct
          [] c = "risk_pct"   -> risk_pct
          [] c = "r_multiple" -> FDiv(return_pct, risk_pct)
          [] c = "is_win"     -> net_pnl # NaN /\ FLess(FromInt(0), net_pnl)
          [] c = "is_loss"    -> net_pnl # NaN /\ FLess(net_pnl, FromInt(0))

\* the columns read_csv makes int64
IntColumns(rs) == {c \in NumericColumns \cap HeaderOf(rs) : ColumnIsInt(rs, c)}

\* the exception step k of _calculate_trade_metrics raises on the frame of the
\* file rs with the columns cols ("" = none): KeyError when it reads a column
\* the frame does not have, TypeError when the operation raises on some row.
\* A division with an operand of dtype object (computed from a column
\* read_csv left as text) is done row by row on Python numbers, for every
\* row, a missing numerator (nan) included: a divisor
\* y that is the number 0.0, -0.0 or 0 raises ZeroDivisionError. No row
\* raises TypeError before it: the numerators hold no text, and a divisor
\* column that holds a text holds no number.
StepError(rs, cols, k) ==
    IF ~(MetricSteps[k].reads \subseteq cols) THEN "KeyError"
    ELSE IF /\ MetricSteps[k].col \notin {"is_win", "is_loss"}
            /\ \E i \in 1..Len(rs) :
                  MetricValue(FrameRow(rs, i), MetricSteps[k].col, IntColumns(rs)) = Raised
         THEN "TypeError"
    ELSE IF /\ MetricSteps[k].over # ""
            /\ \E c \in MetricSteps[k].from \cap HeaderOf(rs) : ColumnIsText(rs, c)
            /\ \E i \in 1..Len(rs) :
                  \E r \in {FrameRow(rs, i)} :
                  \E y \in {IF MetricSteps[k].over \in DOMAIN r THEN r[MetricSteps[k].over]
                            ELSE MetricValue(r, MetricSteps[k].over, IntColumns(rs))} :
                      y # NaN /\ ~IsText(y) /\ IsZero(y)
         THEN "ZeroDivisionError"
    ELSE ""

RECURSIVE MetricColumns(_, _, _)
\* the columns of the frame when _calculate_trade_metrics stops: the steps from
\* k on run until one raises
MetricColumns(rs, cols, k) ==
    IF k > Len(MetricSteps) \/ StepError(rs, cols, k) # "" THEN cols
    ELSE MetricColumns(rs, cols \cup {MetricSteps[k].col}, k + 1)

RECURSIVE MetricError(_, _, _)
\* the exception that stops _calculate_trade_metrics ("" = none)
MetricError(rs, cols, k) ==
    IF k > Len(MetricSteps) THEN ""
    ELSE CHOOSE e \in
        {IF raised_k # "" THEN raised_k
         ELSE MetricError(rs, cols \cup {MetricSteps[k].col}, k + 1)
         : raised_k \in {StepError(rs, cols, k)}} : TRUE

\* row i of the frame with the columns cols
FrameMetrics(rs, i, cols) ==
    [c \in cols |-> IF c \in DOMAIN FrameRow(rs, i) THEN FrameRow(rs, i)[c]
                    ELSE MetricValue(FrameRow(rs, i), c, IntColumns(rs))]

\* the date cells to_datetime can parse
DatesParse(rs) == \A i \in 1..Len(rs) : rs[i].date \in Dates

\* the exception the except clause of load_trades caught and printed ("" = none)
TA_LoadFailure(rs, exists) ==
    IF ~exists THEN "FileNotFoundError"
    ELSE IF "date" \notin HeaderOf(rs) THEN "KeyError"
    ELSE IF ~DatesParse(rs) THEN "ValueError"
    ELSE IF "time" \notin HeaderOf(rs) THEN "KeyError"
    ELSE MetricError(rs, HeaderOf(rs) \cup {"datetime"}, 1)

\* the columns of self.trades when load_trades returns: the header, then
\* datetime, then the metric columns as far as _calculate_trade_metrics got
TA_Columns(rs) ==
    IF "date" \in HeaderOf(rs) /\ DatesParse(rs) /\ "time" \in HeaderOf(rs)
    THEN MetricColumns(rs, HeaderOf(rs) \cup {"datetime"}, 1)
    ELSE HeaderOf(rs)

\* the rows of self.trades when load_trades returns; sort_values('datetime')
\* is the last statement of _calculate_trade_metrics. The explored files hold
\* one time of day, so the datetime order is the date order
TA_Frame(rs) ==
    CHOOSE sorted \in
        {IF TA_LoadFailure(rs, TRUE) = ""
         THEN [k \in 1..Len(frame) |-> frame[SortedByDate(frame, Len(frame))[k]]]
         ELSE frame
         : frame \in {[i \in 1..Len(rs) |-> FrameMetrics(rs, i, TA_Columns(rs))]}} : TRUE

\* positions at which the constructor has returned and the methods can be called
TA_Constructed == {"ta_new", "ta_loaded", "ta_kpis", "ta_printed", "ta_exported"}

\* TradeAnalyzer(), TradeAnalyzer(None) or TradeAnalyzer(''): __init__ sets
\* self.trades = None and self.analysis_results = {} and, csv_file being
\* false, does not call load_trades
TA_init ==
    /\ program = "pandas"
    /\ pc = "start"
    /\ dfIsNone' = TRUE
    /\ df' = <<>>
    /\ dfColumns' = {}
    /\ kpis' = EmptyDict
    /\ pc' = "ta_new"
    /\ UNCHANGED <<program, rows, trades, loadError, scan, peaks, locals, stats, setupStats,
                   raised, exported, fileExists, runOutcome, monthly>>

\* __init__ with a csv_file sets self.trades = None and calls load_trades; the
\* method can be called again on the constructed analyzer (here with the file).
\* read_csv assigns self.trades, then the date, datetime and metric columns
\* are set on it; the except clause prints the error and the method returns
TA_load_trades ==
    /\ program = "pandas"
    /\ pc \in {"start"} \cup TA_Constructed
    /\ dfIsNone' = ~fileExists
    /\ df' = IF fileExists THEN TA_Frame(rows) ELSE <<>>
    /\ dfColumns' = IF fileExists THEN TA_Columns(rows) ELSE {}
    /\ loadError' = TA_LoadFailure(rows, fileExists)
    /\ raised' = ""
    /\ pc' = "ta_loaded"
    /\ UNCHANGED <<program, rows, trades, scan, peaks, locals, stats, setupStats,
                   exported, fileExists, kpis, runOutcome, monthly>>

----------------------------------------------------------------------------
(* TradeAnalyzer.calculate_kpis and print_summary (pandas) *)

\* the values of one column of the frame
Column(frame, c) == [i \in 1..Len(frame) |-> frame[i][c]]

\* Series.dropna()
DropNa(s) == Pick(s, SelectIdx([i \in 1..Len(s) |-> s[i] # NaN], 1))

RECURSIVE FSum(_)
\* the sum of the floats of s, added in turn to +0.0: a sum of zeros is +0.0
FSum(s) ==
    IF s = <<>> THEN FromInt(0)
    ELSE FAdd(FSum(SubSeq(s, 1, Len(s) - 1)), s[Len(s)])

RECURSIVE Accumulate(_)
\* the last entry of np.cumsum of the non-empty s: the floats added from the
\* first one on, so that a -0.0 at the head stays -0.0
Accumulate(s) ==
    IF Len(s) = 1 THEN s[1]
    ELSE FAdd(Accumulate(SubSeq(s, 1, Len(s) - 1)), s[Len(s)])

\* the series with 0.0 in place of its NaN entries
FillNa(s) == [i \in 1..Len(s) |-> IF s[i] = NaN THEN FromInt(0) ELSE s[i]]

\* Series.sum(): NaN entries count as 0.0
FSumSkip(s) == FSum(FillNa(s))

\* Series.mean(): NaN entries are skipped; NaN when none is left
FMean(s) ==
    IF DropNa(s) = <<>> THEN NaN ELSE FDiv(FSumSkip(s), FromInt(Len(DropNa(s))))

RECURSIVE FMaxOf(_)
\* the greatest of the floats of s; of two equal ones (0.0 and -0.0) the later
FMaxOf(s) ==
    IF Len(s) = 1 THEN Head(s)
    ELSE LET m == FMaxOf(Tail(s)) IN IF FLess(m, Head(s)) THEN Head(s) ELSE m

RECURSIVE FMinOf(_)
FMinOf(s) ==
    IF Len(s) = 1 THEN Head(s)
    ELSE LET m == FMinOf(Tail(s)) IN IF FLess(m, Head(s)) THEN m ELSE Head(s)

\* Series.max(): NaN entries are skipped; NaN when none is left
FMax(s) == IF DropNa(s) = <<>> THEN NaN ELSE FMaxOf(DropNa(s))

\* Series.min(): NaN entries are skipped; NaN when none is left
FMin(s) == IF DropNa(s) = <<>> THEN NaN ELSE FMinOf(DropNa(s))

\* variant: no losing trade gives an infinite payoff ratio
KpiPayoffRatio_inf(avg_win, avg_loss) ==
    IF ~IsZero(avg_loss) THEN FAbs(FDiv(avg_win, avg_loss)) ELSE Inf

\* abs(avg_win / avg_loss) if avg_loss != 0 else 0
KpiPayoffRatio(avg_win, avg_loss) ==
    IF ~IsZero(avg_loss) THEN FAbs(FDiv(avg_win, avg_loss)) ELSE FromInt(0)

\* Series.cumsum() at position k: NaN where the entry is NaN; elsewhere the
\* sum of the entries up to k, the NaN ones counting as 0.0
CumSum(s, k) == IF s[k] = NaN THEN NaN ELSE Accumulate(FillNa(SubSeq(s, 1, k)))

\* Series.expanding().max() at position k: the greatest of the cumulative
\* values up to k that are not NaN, the later of two equal ones
RunningMax(s, k) == FMax([j \in 1..k |-> CumSum(s, j)])

\* _calculate_max_drawdown: the least of (cumulative - running max) /
\* running max * 100 over the frame, by float division
MaxDrawdown(frame, cols) ==
    IF "datetime" \notin cols THEN FromInt(0)
    ELSE LET net == Column(frame, "net_pnl")
         IN  FMin([k \in 1..Len(net) |->
                     FTimes100(FDiv(FSub(CumSum(net, k), RunningMax(net, k)),
                                    RunningMax(net, k)))])

\* a float known by its sign and its square: sign * sqrt(square)
SignedRoot(sign, square) == [sign |-> sign, square |-> square]

\* _calculate_sharpe_ratio: 0 for fewer than two trades; else mean / std of
\* the net_pnl that are not NaN (std with ddof = 1, NaN for fewer than two
\* values), 0 for a zero std; mean^2 / std^2 is
\* S^2 (n - 1) / (n (n Q - S^2)) for the sum S and the sum of squares Q
SharpeRatio(frame) ==
    LET net  == DropNa(Column(frame, "net_pnl"))
        n    == Len(net)
        sum  == FSum(net)
        sq   == FSum([i \in 1..n |-> RMul(net[i], net[i])])
        sum2 == RMul(sum, sum)
        dev  == FSub(RMul(FromInt(n), sq), sum2)
    IN  IF Len(frame) < 2 THEN SignedRoot(0, FromInt(0))
        ELSE IF n < 2 THEN SignedRoot(0, NaN)
        ELSE IF dev[1] = 0 THEN SignedRoot(0, FromInt(0))
        ELSE SignedRoot(Sign(sum[1]), RDiv(RMul(sum2, FromInt(n - 1)), RMul(FromInt(n), dev)))

\* strategy texts, listed in increasing character order
StrategyTexts == <<"A", "B">>

\* the group keys of groupby('strategy'), sorted: rows whose strategy cell is
\* empty or missing (NaN) belong to no group
StrategyKeys(frame) ==
    SelectIdx([i \in 1..Len(StrategyTexts) |->
                 \E j \in 1..Len(frame) : frame[j].strategy = StrategyTexts[i]], 1)

\* DataFrame.round(2) of a float: numpy computes rint(x * 100) / 100, so the
\* float product x * 100 decides a tie (the even neighbour when the product
\* is a half exactly), and a result of zero keeps the sign of x; NaN and inf
\* stay as they are
NumpyRound2(p) ==
    CHOOSE r \in
        {IF IsZero(n) THEN Zero(SignBit(x)) ELSE n
         : x \in {p}, n \in {Round2Dir(Val(p), ScaledError(Val(p), 100))}} : TRUE

\* one row of groupby('strategy').agg(...).round(2): the sum and the mean of
\* the net_pnl that are not NaN, rounded; count and wins are integers
StrategyEntry(frame, key) ==
    CHOOSE entry \in
        {[strategy |-> key,
          sum      |-> NumpyRound2(FSumSkip(net)),
          mean     |-> NumpyRound2(FMean(net)),
          count    |-> Len(DropNa(net)),
          wins     |-> Len(SelectIdx([j \in 1..Len(idx) |-> frame[idx[j]].is_win], 1))]
         : idx \in {SelectIdx([j \in 1..Len(frame) |-> frame[j].strategy = key], 1)},
           net \in {Pick(Column(frame, "net_pnl"),
                         SelectIdx([j \in 1..Len(frame) |-> frame[j].strategy = key], 1))}} : TRUE

StrategyPerformance(frame) ==
    [k \in 1..Len(StrategyKeys(frame)) |->
        StrategyEntry(frame, StrategyTexts[StrategyKeys(frame)[k]])]

\* the columns calculate_kpis reads
KpiReads == {"is_win", "is_loss", "net_pnl", "r_multiple", "strategy"}

\* exception raised by calculate_kpis ("" = none): an empty or missing frame
\* returns {} before any column is read
KpiError(isNone, frame, cols) ==
    IF isNone \/ Len(frame) = 0 THEN ""
    ELSE IF KpiReads \subseteq cols THEN ""
    ELSE "KeyError"

\* the dict calculate_kpis stores in self.analysis_results
Kpis(frame, cols) ==
    LET net      == Column(frame, "net_pnl")
        wins     == SelectIdx(Column(frame, "is_win"), 1)
        losses   == SelectIdx(Column(frame, "is_loss"), 1)
        avg_win  == IF Len(wins) > 0 THEN FMean(Pick(net, wins)) ELSE FromInt(0)
        avg_loss == IF Len(losses) > 0 THEN FMean(Pick(net, losses)) ELSE FromInt(0)
    IN  [total_trades         |-> Len(frame),
         winning_trades       |-> Len(wins),
         losing_trades        |-> Len(losses),
         win_rate             |-> WinRate(Len(wins), Len(frame)),
         total_pnl            |-> FSumSkip(net),
         avg_win              |-> avg_win,
         avg_loss             |-> avg_loss,
         payoff_ratio         |-> KpiPayoffRatio(avg_win, avg_loss),
         avg_r_multiple       |-> FMean(Column(frame, "r_multiple")),
         max_r_multiple       |-> FMax(Column(frame, "r_multiple")),
         min_r_multiple       |-> FMin(Column(frame, "r_multiple")),
         max_drawdown         |-> MaxDrawdown(frame, cols),
         sharpe_ratio         |-> SharpeRatio(frame),
         strategy_performance |-> StrategyPerformance(frame)]

\* self.analysis_results after a calculate_kpis call
KpisAfter(old, isNone, frame, cols) ==
    IF isNone \/ Len(frame) = 0 \/ KpiError(isNone, frame, cols) # "" THEN old
    ELSE Kpis(frame, cols)

TA_calculate_kpis ==
    /\ program = "pandas"
    /\ pc \in TA_Constructed
    /\ kpis' = KpisAfter(kpis, dfIsNone, df, dfColumns)
    /\ raised' = KpiError(dfIsNone, df, dfColumns)
    /\ pc' = "ta_kpis"
    /\ UNCHANGED <<program, rows, trades, loadError, scan, peaks, locals, stats, setupStats,
                   dfIsNone, df, exported, fileExists, dfColumns, runOutcome, monthly>>

\* self.analysis_results after a print_summary call: calculate_kpis runs
\* when the dict is empty
KpisPrinted(old, isNone, frame, cols) ==
    IF old = EmptyDict THEN KpisAfter(old, isNone, frame, cols) ELSE old

\* exception raised by print_summary ("" = none): that of calculate_kpis, or
\* the KeyError of results['total_trades'] on an empty dict
TA_PrintError(old, isNone, frame, cols) ==
    IF old = EmptyDict /\ KpiError(isNone, frame, cols) # "" THEN KpiError(isNone, frame, cols)
    ELSE IF KpisPrinted(old, isNone, frame, cols) = EmptyDict THEN "KeyError"
    ELSE ""

TA_print_summary ==
    /\ program = "pandas"
    /\ pc \in TA_Constructed
    /\ kpis' = KpisPrinted(kpis, dfIsNone, df, dfColumns)
    /\ raised' = TA_PrintError(kpis, dfIsNone, df, dfColumns)
    /\ pc' = "ta_printed"
    /\ UNCHANGED <<program, rows, trades, loadError, scan, peaks, locals, stats, setupStats,
                   dfIsNone, df, exported, fileExists, dfColumns, runOutcome, monthly>>

\* the columns plot_returns_distribution reads
PlotReads == {"return_pct", "r_multiple", "is_win", "is_loss", "net_pnl"}

\* default of the parameter filename of export_analysis
ReportFile == "trade_analysis_report.html"

\* exception raised by export_analysis ("" = none): that of the lazy
\* calculate_kpis; the KeyError of a column plot_equity_curve or
\* plot_returns_distribution reads; the KeyError of
\* self.analysis_results['total_trades'] on an empty dict; the AttributeError
\* of equity_fig.to_html when plot_equity_curve returned None
TA_ExportError(old, isNone, frame, cols) ==
    IF old = EmptyDict /\ KpiError(isNone, frame, cols) # "" THEN KpiError(isNone, frame, cols)
    ELSE IF ~isNone /\ "datetime" \in cols /\ "net_pnl" \notin cols THEN "KeyError"
    ELSE IF ~isNone /\ ~(PlotReads \subseteq cols) THEN "KeyError"
    ELSE IF KpisPrinted(old, isNone, frame, cols) = EmptyDict THEN "KeyError"
    ELSE IF isNone \/ "datetime" \notin cols THEN "AttributeError"
    ELSE ""

\* export_analysis: calculate_kpis runs when the dict is empty, the two
\* figures are built, the report is written and its name returned
TA_export_analysis ==
    /\ program = "pandas"
    /\ pc \in TA_Constructed
    /\ kpis' = KpisPrinted(kpis, dfIsNone, df, dfColumns)
    /\ raised' = TA_ExportError(kpis, dfIsNone, df, dfColumns)
    /\ exported' = IF raised' = "" THEN [filename |-> ReportFile] ELSE exported
    /\ pc' = "ta_exported"
    /\ UNCHANGED <<program, rows, trades, loadError, scan, peaks, locals, stats, setupStats,
                   dfIsNone, df, fileExists, dfColumns, runOutcome, monthly>>

----------------------------------------------------------------------------
(* run.py run_analyzer *)

\* the methods class TradeAnalyzer defines
TA_Methods ==
    {"__init__", "load_trades", "_calculate_trade_metrics", "calculate_kpis",
     "_calculate_max_drawdown", "_calculate_sharpe_ratio", "print_summary",
     "plot_equity_curve", "plot_returns_distribution", "export_analysis"}

\* the exception the except clause of run_analyzer catches: that of
\* print_summary, or the AttributeError of the first call of a method the
\* class does not define ("" = none)
RunError(printError) ==
    IF printError # "" THEN printError
    ELSE IF {"get_monthly_stats", "get_setup_analysis"} \subseteq TA_Methods THEN ""
    ELSE "AttributeError"

\* the command-line analysis step: constructs the analyzer on the file,
\* prints the summary, then asks it for the monthly and the setup analysis;
\* any exception is printed and the step returns False
run_analyzer ==
    /\ program = "pandas"
    /\ pc = "start"
    /\ dfIsNone' = ~fileExists
    /\ df' = IF fileExists THEN TA_Frame(rows) ELSE <<>>
    /\ dfColumns' = IF fileExists THEN TA_Columns(rows) ELSE {}
    /\ loadError' = TA_LoadFailure(rows, fileExists)
    /\ kpis' = KpisPrinted(kpis, dfIsNone', df', dfColumns')
    /\ LET err == RunError(TA_PrintError(kpis, dfIsNone', df', dfColumns'))
       IN  runOutcome' = [returned |-> err = "", error |-> err]
    /\ pc' = "ran"
    /\ UNCHANGED <<program, rows, trades, scan, peaks, locals, stats, setupStats,
                   raised, exported, fileExists, monthly>>

----------------------------------------------------------------------------

Next ==
    \/ load_trades
    \/ calculate_metrics
    \/ get_basic_stats
    \/ get_setup_stats
    \/ print_summary
    \/ export_to_json
    \/ TA_init
    \/ TA_load_trades
    \/ TA_calculate_kpis
    \/ TA_print_summary
    \/ TA_export_analysis
    \/ run_analyzer

Spec == Init /\ [][Next]_vars

----------------------------------------------------------------------------
(* Properties *)

\* the analyzer object exists and its records carry the derived fields
SimpleReady == program = "simple" /\ pc \in Constructed /\ Enriched(trades)

\* get_basic_stats has returned a summary of a non-empty record set
HasSummary == SimpleReady /\ pc \in {"stats", "printed", "exported"} /\ trades # <<>>

\* the record respects the data model: positive prices and quantity
WellFormed(t) == t.entry_price > 0 /\ t.exit_price > 0 /\ t.quantity > 0

\* side convention of the specification on one enriched record
SideConvention(t) ==
    /\ Lower(t.side) = "long"  => t.gross_pnl = (t.exit_price - t.entry_price) * t.quantity
    /\ Lower(t.side) = "short" => t.gross_pnl = (t.entry_price - t.exit_price) * t.quantity
    /\ t.exit_price > t.entry_price =>
          /\ Lower(t.side) = "long"  => t.gross_pnl > 0
          /\ Lower(t.side) = "short" => t.gross_pnl < 0

\* the prices, the quantity and the gross_pnl of the frame row are whole numbers
FrameNumeric(r) ==
    \A c \in {"entry_price", "exit_price", "quantity", "gross_pnl"} : Len(r[c]) = 2 /\ r[c][2] = 1

\* the frame row as a record of whole numbers
FrameRecord(r) ==
    [side |-> r.side, entry_price |-> r.entry_price[1], exit_price |-> r.exit_price[1],
     quantity |-> r.quantity[1], gross_pnl |-> r.gross_pnl[1]]

\* C1: every loaded record (of positive prices and quantity) has
\* gross_pnl = (exit - entry) * quantity when long and (entry - exit) * quantity
\* when short, in both analyzers; so with exit > entry a long trade gains and
\* a short trade loses.
C1_GrossPnlFollowsSide ==
    /\ SimpleReady =>
          \A i \in 1..Len(trades) : WellFormed(trades[i]) => SideConvention(trades[i])
    /\ (program = "pandas" /\ pc = "ta_loaded" /\ loadError = "") =>
          \A i \in 1..Len(df) :
              (FrameNumeric(df[i]) /\ WellFormed(FrameRecord(df[i])))
                  => SideConvention(FrameRecord(df[i]))

\* C2: after calculate_metrics every record has net_pnl = gross_pnl - commission
\* and is_winner exactly when net_pnl > 0.
C2_NetPnlAndWinner ==
    SimpleReady =>
        \A i \in 1..Len(trades) :
            /\ trades[i].net_pnl = trades[i].gross_pnl - trades[i].commission
            /\ trades[i].is_winner <=> trades[i].net_pnl > 0

\* a flat trade (net_pnl = 0 after a commission) that is not a winner, beside
\* nothing else: the boundary case of the winner test
W_C2_FlatTrade ==
    /\ SimpleReady
    /\ \E i \in 1..Len(trades) :
          /\ trades[i].commission > 0
          /\ trades[i].gross_pnl > 0
          /\ trades[i].net_pnl = 0
          /\ ~trades[i].is_winner

\* the row breaks a validation rule of the loader contract
RowInvalid(row) ==
    \/ \E c \in {"date", "symbol", "side"} \cup {LoadColumns[i] : i \in 1..Len(LoadColumns)} :
          row[c] = None
    \/ \E i \in 1..Len(LoadColumns) : CellError(LoadColumns[i], row[LoadColumns[i]]) # ""
    \/ IntConvError(row.quantity) = "" /\ IntOfText(row.quantity) <= 0
    \/ ConvError(row.entry_price) = "" /\ FloatOfText(row.entry_price) <= 0
    \/ ConvError(row.exit_price) = "" /\ FloatOfText(row.exit_price) <= 0

\* C3: a load over a file with a row that misses a required field, has a
\* numeric field that does not parse, quantity <= 0 or a price <= 0 fails,
\* and no such row is ever accepted as a record.
C3_InvalidRowsRejected ==
    (program = "simple" /\ pc # "start") =>
        /\ (\E i \in 1..Len(rows) : RowInvalid(rows[i])) => loadError # ""
        /\ \A i \in 1..Len(trades) :
              /\ trades[i].quantity > 0
              /\ trades[i].entry_price > 0
              /\ trades[i].exit_price > 0

\* C4: loading is fail-fast with no partial result: once a row has failed, the
\* analyzer holds no record and no statistics are computed over a partial set.
C4_NoPartialLoad ==
    (program = "simple" /\ loadError # "") =>
        /\ trades = <<>>
        /\ stats = EmptyDict

\* C5: r_multiple = gross_pnl / risk_amount when risk_amount > 0 and 0 when
\* risk_amount = 0; such a record raises nothing and counts in the average
\* R-multiple, which is taken over all records.
C5_RMultipleGuard ==
    /\ SimpleReady =>
          \A i \in 1..Len(trades) :
              IF trades[i].risk_amount > 0
              THEN /\ IsFinite(trades[i].r_multiple)
                   /\ trades[i].r_multiple[1] * trades[i].risk_amount
                         = trades[i].gross_pnl * trades[i].r_multiple[2]
              ELSE trades[i].r_multiple = FromInt(0)
    /\ (HasSummary /\ pc = "stats") =>
          /\ raised = ""
          /\ stats.avg_r_multiple =
                Round2(RDiv(SumRats([i \in 1..Len(trades) |-> trades[i].r_multiple]),
                            FromInt(stats.total_trades)))
          /\ stats.total_trades = Len(trades)

\* a summary over a record without risk and a record with risk and a non-zero R-multiple
W_C5_MixedRisk ==
    /\ HasSummary
    /\ pc = "stats"
    /\ \E i, j \in 1..Len(trades) :
          /\ trades[i].risk_amount = 0
          /\ trades[i].gross_pnl # 0
          /\ trades[j].risk_amount > 0
          /\ trades[j].commission > 0
          /\ trades[j].r_multiple # FromInt(0)

\* C6: for an empty record set the summary is produced with total_trades = 0,
\* win_rate = 0, payoff_ratio = 0 and total P&L = 0, and printing it does not raise.
C6_EmptySummary ==
    (SimpleReady /\ pc \in {"stats", "printed"} /\ trades = <<>>) =>
        /\ "total_trades" \in DOMAIN stats
        /\ stats.total_trades = 0
        /\ stats.win_rate = FromInt(0)
        /\ stats.payoff_ratio = FromInt(0)
        /\ stats.total_pnl = FromInt(0)
        /\ raised = ""

\* record i comes before record j in the chronological order with input-order ties
Before(ts, i, j) ==
    \/ CalendarLess(CalendarOf(ts[i].date), CalendarOf(ts[j].date))
    \/ ts[i].date = ts[j].date /\ i < j

RECURSIVE SumNetOver(_, _)
\* sum of net_pnl over the records whose indices are in S
SumNetOver(ts, S) ==
    IF S = {} THEN 0
    ELSE LET i == CHOOSE x \in S : TRUE IN ts[i].net_pnl + SumNetOver(ts, S \ {i})

\* C7: the equity scan visits every record once, in ascending date order with
\* equal dates in input order; the cumulative_pnl of a record is the sum of the
\* net_pnl of the records before it in that order and of its own, so it
\* includes every earlier record and no later one.
C7_ScanInDateOrder ==
    SimpleReady =>
        /\ Len(scan) = Len(trades)
        /\ {scan[k] : k \in 1..Len(scan)} = 1..Len(trades)
        /\ \A p, q \in 1..Len(scan) : p < q => Before(trades, scan[p], scan[q])
        /\ \A i \in 1..Len(trades) :
              trades[i].cumulative_pnl =
                  SumNetOver(trades, {j \in 1..Len(trades) : j = i \/ Before(trades, j, i)})

\* three records out of date order in the file, two of them on the same day
W_C7_UnsortedWithTie ==
    /\ SimpleReady
    /\ Len(trades) = 3
    /\ trades[1].date = trades[3].date
    /\ CalendarLess(CalendarOf(trades[2].date), CalendarOf(trades[1].date))
    /\ trades[1].net_pnl > 0 /\ trades[2].net_pnl < 0 /\ trades[3].net_pnl < 0
    /\ scan = <<2, 1, 3>>
    /\ trades[1].cumulative_pnl # trades[3].cumulative_pnl

\* C8: along the scan cumulative_pnl[k] = cumulative_pnl[k-1] + net_pnl[k],
\* starting from 0: the first record's value is its own net_pnl and the k-th
\* value is the sum of the net_pnl of the first k records visited.
C8_CumulativeRecurrence ==
    SimpleReady =>
        \A k \in 1..Len(scan) :
            /\ trades[scan[k]].cumulative_pnl =
                  (IF k = 1 THEN 0 ELSE trades[scan[k - 1]].cumulative_pnl)
                  + trades[scan[k]].net_pnl
            /\ trades[scan[k]].cumulative_pnl =
                  SumInts([j \in 1..k |-> trades[scan[j]].net_pnl])

\* a scan of three records with gains, a loss and a commission
W_C8_ThreeSteps ==
    /\ SimpleReady
    /\ Len(scan) = 3
    /\ scan # <<1, 2, 3>>
    /\ trades[scan[1]].net_pnl > 0
    /\ trades[scan[2]].net_pnl < 0
    /\ trades[scan[2]].commission > 0
    /\ trades[scan[3]].net_pnl > 0
    /\ trades[scan[3]].cumulative_pnl = SumNetOver(trades, {1, 2, 3})

\* C9: peak[k] = max(peak[k-1], cumulative_pnl[k]) with the peak 0 before the
\* first record; the peak never decreases; drawdown[k] = cumulative_pnl[k] - peak[k]
\* and drawdown[k] <= 0, whatever the signs and order of the net_pnl values.
C9_PeakAndDrawdown ==
    SimpleReady =>
        /\ Len(peaks) = Len(scan)
        /\ \A k \in 1..Len(scan) :
              LET before == IF k = 1 THEN 0 ELSE peaks[k - 1]
                  cum    == trades[scan[k]].cumulative_pnl
              IN  /\ peaks[k] = (IF cum > before THEN cum ELSE before)
                  /\ peaks[k] >= before
                  /\ trades[scan[k]].drawdown = cum - peaks[k]
                  /\ trades[scan[k]].drawdown <= 0

\* a scan that starts with a loss (the peak stays 0), reaches a positive peak
\* and falls below it again
W_C9_LossPeakLoss ==
    /\ SimpleReady
    /\ Len(scan) = 3
    /\ trades[scan[1]].cumulative_pnl < 0
    /\ peaks[1] = 0
    /\ trades[scan[1]].drawdown < 0
    /\ peaks[2] > 0
    /\ trades[scan[2]].drawdown = 0
    /\ trades[scan[3]].drawdown < 0
    /\ peaks[3] = peaks[2]

\* drawdown_pct of the k-th record visited: drawdown / running peak * 100, 0 while the peak is 0
DrawdownPct(k) ==
    IF peaks[k] > 0 THEN Rat(100 * trades[scan[k]].drawdown, peaks[k]) ELSE FromInt(0)

\* C10: for a non-empty record set the reported max_drawdown_pct is the
\* minimum over the records of drawdown_pct, each taken against the running
\* peak at that record (the reported figure being rounded to two decimals).
\* Stated on the record sets whose running peak is positive from the first
\* record on, where the zero-peak guard plays no part.
C10_MaxDrawdownPctRunningPeak ==
    (HasSummary /\ peaks[1] > 0) =>
        /\ \E k \in 1..Len(scan) : stats.max_drawdown_pct = Round2(DrawdownPct(k))
        /\ \A k \in 1..Len(scan) : RLeq(stats.max_drawdown_pct, Round2(DrawdownPct(k)))

\* C11: when the running peak is 0 at every record (the cumulative P&L never
\* rises above 0), every percentage drawdown is 0, so the reported
\* max_drawdown_pct is 0 whatever the (negative) max_drawdown, and computing
\* it raises nothing.
C11_ZeroPeakGuard ==
    (HasSummary /\ pc = "stats"
       /\ \A i \in 1..Len(trades) : WellFormed(trades[i])
       /\ \A k \in 1..Len(peaks) : peaks[k] = 0) =>
        /\ raised = ""
        /\ stats.max_drawdown_pct = FromInt(0)

\* get_basic_stats has just returned the summary of a non-empty record set
StatsReturned == HasSummary /\ pc = "stats"

\* the count-th part of the amount sum (in fixed point) is the rational q
IsMeanOf(q, sum, count) == IsFinite(q) /\ q[1] * count * Unit = sum * q[2]

\* C12: payoff_ratio = |avg_win / avg_loss| when avg_loss # 0, and +infinity
\* when avg_loss = 0 and avg_win # 0 (the summary then holds +infinity too);
\* the computation raises nothing.
C12_PayoffRatio ==
    StatsReturned =>
        LET w == locals.avg_win
            l == locals.avg_loss
            p == locals.payoff_ratio
        IN  /\ raised = ""
            /\ l # FromInt(0) =>
                  /\ IsFinite(p)
                  /\ p[1] >= 0
                  /\ p[1] * Abs(l[1]) * w[2] = Abs(w[1]) * l[2] * p[2]
            /\ (l = FromInt(0) /\ w # FromInt(0)) =>
                  /\ p = Inf
                  /\ stats.payoff_ratio = Inf

\* a summary over a winner and a flat trade: there are non-winners, their
\* mean is 0 and the ratio is +infinity
W_C12_FlatOnlyLosers ==
    /\ StatsReturned
    /\ locals.losing_trades > 0
    /\ locals.winning_trades > 0
    /\ locals.avg_loss = FromInt(0)
    /\ locals.avg_win # FromInt(0)
    /\ locals.payoff_ratio = Inf

\* get_setup_stats has returned its dict (called directly or by print_summary)
HasSetupStats ==
    SimpleReady /\ (pc \in {"setups", "exported"} \/ (pc = "printed" /\ raised # "KeyError"))

\* C13: grouping is additive: the sum of net_pnl over all records equals the
\* sum of the total_pnl of all the groups get_setup_stats returns.
C13_GroupingAdditive ==
    HasSetupStats =>
        SumRats([j \in 1..Len(setupStats) |-> setupStats[j].total_pnl])
            = Money(SumInts(NetPnls(trades)))

\* C14: the groups of the per-setup result come in descending total_pnl: each
\* group's total_pnl is >= the total_pnl of the group after it.
C14_GroupsByDescendingPnl ==
    HasSetupStats =>
        \A j \in 1..(Len(setupStats) - 1) :
            RLeq(setupStats[j + 1].total_pnl, setupStats[j].total_pnl)

\* the setup cell of the row is absent or empty
NoCategoryCell(row) == row.setup \in {"", None, Absent}

\* the record carries no category
NoCategory(t) == t.setup \in {"", None}

\* the five converted cells of the row are texts of numbers
NumbersParse(row) ==
    /\ {row.entry_price, row.exit_price, row.commission, row.risk_amount} \subseteq FloatTexts
    /\ row.quantity \in NumTexts

\* index of the row of the file the i-th record of self.trades was read from,
\* each call of load_trades appending one record per row read
RowOf(i) == ((i - 1) % Len(LoadedTrades(rows))) + 1

\* every call of load_trades read the whole file without error: self.trades
\* holds one record per row for each call
LoadedWhole ==
    /\ loadError = ""
    /\ Len(LoadedTrades(rows)) = Len(rows)
    /\ Len(trades) >= Len(rows)
    /\ rows # <<>> => Len(trades) % Len(rows) = 0

\* a file whose rows parse loads whole and without error, whether or not its
\* rows have a setup
LoadsWithoutSetup ==
    (program = "simple" /\ pc # "start" /\ fileExists
        /\ \A i \in 1..Len(rows) : NumbersParse(rows[i])) =>
        /\ LoadedWhole
        /\ \A i \in 1..Len(trades) : NoCategoryCell(rows[RowOf(i)]) <=> NoCategory(trades[i])

\* no record is dropped, and the records without category form the one group
\* keyed key
SentinelGroup(key) ==
    HasSetupStats =>
        LET n == Cardinality({i \in 1..Len(trades) : NoCategory(trades[i])})
        IN  /\ SumInts([j \in 1..Len(setupStats) |-> setupStats[j].trades]) = Len(trades)
            /\ \A j \in 1..Len(setupStats) : setupStats[j].setup \notin {"", None}
            /\ n > 0 => \E j \in 1..Len(setupStats) :
                            /\ setupStats[j].setup = key
                            /\ setupStats[j].trades = n

\* C15: a record whose setup is absent or empty is loaded without
\* error, is not dropped from the grouping and is placed in the group keyed
\* "uncategorized".
C15_UncategorizedGroup == LoadsWithoutSetup /\ SentinelGroup("uncategorized")

\* C16: the pipeline is idempotent and keeps no state between calls: after
\* load, calculate_metrics and get_basic_stats have run, once or again, on
\* the same file, the summary is that of one run over the file; calling
\* calculate_metrics again leaves every derived field, the scan and the peaks
\* as they were (the scan restarts from cumulative_pnl = 0 and peak = 0), and
\* calling get_basic_stats again returns the summary returned before.
C16_Idempotent ==
    /\ [](HasSummary => stats = BasicStats(WithMetrics(LoadedTrades(rows))))
    /\ [][(pc \in Constructed /\ Enriched(trades) /\ pc' = "recalculated") =>
              (trades' = trades /\ scan' = scan /\ peaks' = peaks)]_vars
    /\ [][(stats # EmptyDict /\ pc' \in {"stats", "printed"}) => stats' = stats]_vars

\* C17: a trade whose net_pnl is exactly 0 is counted in total_trades and in
\* neither winning_trades nor losing_trades: the summary counts every record,
\* the records with net_pnl > 0 as winning and those with net_pnl < 0 as losing.
C17_FlatTradeNotCounted ==
    HasSummary =>
        /\ stats.total_trades = Len(trades)
        /\ stats.winning_trades = Cardinality({i \in 1..Len(trades) : trades[i].net_pnl > 0})
        /\ stats.losing_trades = Cardinality({i \in 1..Len(trades) : trades[i].net_pnl < 0})

\* C18: avg_win is the mean net_pnl of the records with is_winner true and 0
\* when there is none; avg_loss is the mean net_pnl of the records with
\* is_winner false, flat ones included, and 0 when there is none; so
\* avg_win > 0 whenever a winner exists and avg_loss <= 0 always.
C18_AvgWinAvgLoss ==
    StatsReturned =>
        LET won  == {i \in 1..Len(trades) : trades[i].is_winner}
            lost == {i \in 1..Len(trades) : ~trades[i].is_winner}
        IN  /\ won # {} =>
                  /\ IsMeanOf(locals.avg_win, SumNetOver(trades, won), Cardinality(won))
                  /\ RLess(FromInt(0), locals.avg_win)
            /\ won = {} => locals.avg_win = FromInt(0)
            /\ lost # {} =>
                  IsMeanOf(locals.avg_loss, SumNetOver(trades, lost), Cardinality(lost))
            /\ lost = {} => locals.avg_loss = FromInt(0)
            /\ RLeq(locals.avg_loss, FromInt(0))

\* a summary over a winner, a flat trade and a losing trade: the flat trade
\* halves the average loss
W_C18_FlatInAvgLoss ==
    /\ StatsReturned
    /\ Len(trades) = 3
    /\ \E i, j, k \in 1..3 :
          /\ trades[i].net_pnl > 0
          /\ trades[j].net_pnl = 0
          /\ trades[k].net_pnl < 0
          /\ locals.avg_loss = Rat(trades[k].net_pnl, 2 * Unit)
          /\ locals.avg_win = Money(trades[i].net_pnl)

\* C19: win_rate = winning_trades / total_trades * 100 and
\* expectancy = (win_rate/100) * avg_win + (1 - win_rate/100) * avg_loss,
\* taken from the win_rate, avg_win and avg_loss before any rounding.
C19_Expectancy ==
    StatsReturned =>
        LET p == RDiv(locals.win_rate, FromInt(100))
            q == RAdd(FromInt(1), <<-p[1], p[2]>>)
        IN  /\ IsFinite(locals.win_rate)
            /\ locals.win_rate[1] * locals.total_trades
                  = 100 * locals.winning_trades * locals.win_rate[2]
            /\ locals.expectancy = RAdd(RMul(p, locals.avg_win), RMul(q, locals.avg_loss))

\* a summary whose win rate is not a multiple of 0.01 (two winners out of
\* three), where the rounded win rate would give another expectancy
W_C19_ThirdsWinRate ==
    /\ StatsReturned
    /\ Round2(locals.win_rate) # locals.win_rate
    /\ locals.avg_win # locals.avg_loss
    /\ locals.avg_loss # FromInt(0)
    /\ locals.expectancy # FromInt(0)

\* C20: the returned summary holds the full-precision values: each statistic
\* equals the value its formula gave, with no rounding applied.
C20_FullPrecisionSummary ==
    HasSummary =>
        /\ stats.win_rate = locals.win_rate
        /\ stats.avg_win = locals.avg_win
        /\ stats.avg_loss = locals.avg_loss
        /\ stats.payoff_ratio = locals.payoff_ratio
        /\ stats.total_pnl = locals.total_pnl
        /\ stats.expectancy = locals.expectancy
        /\ stats.avg_r_multiple = locals.avg_r
        /\ stats.max_drawdown = locals.max_drawdown
        /\ stats.max_drawdown_pct = locals.max_dd_pct

\* the raw fields of a record
RawFields ==
    {"date", "symbol", "side", "entry_price", "exit_price", "quantity", "commission",
     "risk_amount", "setup", "notes"}

\* the derived fields of the data model
DerivedFields ==
    {"gross_pnl", "net_pnl", "r_multiple", "is_winner", "cumulative_pnl", "peak", "drawdown",
     "drawdown_pct"}

\* C21: after the pipeline every record held by the analyzer, and every
\* record of an export, carries all the derived fields: gross_pnl, net_pnl,
\* r_multiple, is_winner, cumulative_pnl, peak, drawdown and drawdown_pct.
C21_AllDerivedFields ==
    /\ SimpleReady => \A i \in 1..Len(trades) : DerivedFields \subseteq DOMAIN trades[i]
    /\ (SimpleReady /\ pc = "exported") =>
          \A i \in 1..Len(exported.trades) : DerivedFields \subseteq DOMAIN exported.trades[i]

\* the dates of the sequence never decrease
AscendingDates(ts) ==
    \A i \in 1..(Len(ts) - 1) : ~CalendarLess(CalendarOf(ts[i + 1].date), CalendarOf(ts[i].date))

\* C22: the enriched record sequence the analyzer holds, and exports, is in
\* ascending date order whatever the order of the rows of the file.
C22_RecordsInDateOrder ==
    /\ SimpleReady => AscendingDates(trades)
    /\ (SimpleReady /\ pc = "exported") => AscendingDates(exported.trades)

\* the records of ts and us agree, one by one, on every raw field
SameRawFields(ts, us) ==
    /\ Len(ts) = Len(us)
    /\ \A i \in 1..Len(ts) :
          /\ RawFields \subseteq DOMAIN ts[i] /\ RawFields \subseteq DOMAIN us[i]
          /\ \A f \in RawFields : ts[i][f] = us[i][f]

\* C23: get_basic_stats and get_setup_stats leave the record set as it is
\* (length, order, raw and derived fields), and calculate_metrics leaves
\* every raw field of every record as it is.
C23_ReadOnlyEngines ==
    /\ [][(pc \in Constructed /\ pc' \in {"stats", "setups"}) => trades' = trades]_vars
    /\ [][(pc' \in {"ready", "recalculated"}) => SameRawFields(trades, trades')]_vars
    /\ [](SimpleReady =>
            \A i \in 1..Len(trades) : \A f \in RawFields :
                trades[i][f] = LoadedTrades(rows)[RowOf(i)][f])

\* the metric steps have run, twice, over three records with a short trade,
\* a commission and a risk amount, and a summary and a grouping were returned
W_C23_AfterAllSteps ==
    /\ program = "simple"
    /\ pc = "recalculated"
    /\ Len(trades) = 3
    /\ stats # EmptyDict
    /\ setupStats # <<>>
    /\ \E i \in 1..3 : Lower(trades[i].side) = "short" /\ trades[i].commission > 0
                        /\ trades[i].risk_amount > 0
    /\ \E i \in 1..3 : trades[i].setup = ""

\* year-month a precedes year-month b
MonthLess(a, b) == a[1] < b[1] \/ (a[1] = b[1] /\ a[2] < b[2])

\* the command-line analysis step has run on a file whose trades loaded
RanOnLoaded ==
    program = "pandas" /\ pc = "ran" /\ ~dfIsNone /\ loadError = "" /\ df # <<>>

\* C24: for a loaded analyzer the command-line analysis step produces the
\* monthly grouped view, and the view is in chronological order: of two
\* consecutive buckets the earlier one's year-month precedes the later one's.
C24_MonthlyViewProduced ==
    RanOnLoaded =>
        /\ runOutcome.returned
        /\ monthly # None
        /\ \A k \in 1..(Len(monthly) - 1) :
               MonthLess(monthly[k].year_month, monthly[k + 1].year_month)

\* calculate_kpis has computed the KPIs of the frame
KpisReported ==
    /\ program = "pandas"
    /\ pc \in {"ta_kpis", "ta_printed", "ta_exported"}
    /\ raised = ""
    /\ kpis # EmptyDict

\* C25: the KPIs of the pandas analyzer have avg_loss = 0 exactly when no
\* trade has net_pnl < 0, and then payoff_ratio is 0, winners or not; the
\* payoff ratio is never infinite.
C25_PayoffZeroWithoutLosers ==
    KpisReported =>
        /\ IsZero(kpis.avg_loss)
              <=> \A i \in 1..Len(df) :
                      df[i].net_pnl = NaN \/ ~FLess(df[i].net_pnl, FromInt(0))
        /\ IsZero(kpis.avg_loss) => kpis.payoff_ratio = FromInt(0)
        /\ IsFinite(kpis.payoff_ratio)

\* KPIs of a frame with a winning trade and no losing trade
W_C25_WinnersWithoutLosers ==
    /\ KpisReported
    /\ kpis.winning_trades > 0
    /\ kpis.losing_trades = 0
    /\ RLess(FromInt(0), kpis.avg_win)
    /\ kpis.payoff_ratio = FromInt(0)

\* the columns _calculate_trade_metrics derives that calculate_kpis reads
KpiColumns == {"net_pnl", "is_win", "is_loss", "r_multiple"}

\* C26: a load of the pandas analyzer is all-or-nothing: when load_trades
\* failed at any step, trades is None afterwards; when trades is not None the
\* derived columns net_pnl, is_win, is_loss and r_multiple exist, and
\* calculate_kpis and print_summary complete without raising.
C26_LoadAllOrNothing ==
    (program = "pandas" /\ pc \in TA_Constructed) =>
        /\ loadError # "" => dfIsNone
        /\ ~dfIsNone => KpiColumns \subseteq dfColumns
        /\ ~dfIsNone => raised = ""

\* C27: for a non-empty record set the expectancy get_basic_stats computes,
\* before rounding, is the total net P&L divided by total_trades, the mean
\* net_pnl per trade.
C27_ExpectancyIsMeanPnl ==
    StatsReturned =>
        /\ IsMeanOf(locals.expectancy, SumNetOver(trades, 1..Len(trades)), Len(trades))
        /\ locals.expectancy = RDiv(locals.total_pnl, FromInt(locals.total_trades))

\* a summary over a winner, a flat trade and a losing trade with a non-zero mean
W_C27_WinFlatLoss ==
    /\ StatsReturned
    /\ Len(trades) = 3
    /\ \E i, j, k \in 1..3 :
          trades[i].net_pnl > 0 /\ trades[j].net_pnl = 0 /\ trades[k].net_pnl < 0
    /\ locals.expectancy # FromInt(0)
    /\ locals.avg_loss # FromInt(0)

\* C28: after calculate_metrics on a non-empty record set the cumulative_pnl
\* of the record visited last equals the sum of net_pnl over all records (the
\* unrounded total_pnl of get_basic_stats), and the largest cumulative_pnl,
\* floored at 0, equals the final running peak.
C28_FinalCumulativeAndPeak ==
    (SimpleReady /\ trades # <<>>) =>
        LET n == Len(trades)
        IN  /\ trades[scan[n]].cumulative_pnl = SumNetOver(trades, 1..n)
            /\ pc = "stats" => locals.total_pnl = Money(trades[scan[n]].cumulative_pnl)
            /\ \A i \in 1..n : trades[i].cumulative_pnl <= peaks[n]
            /\ peaks[n] >= 0
            /\ peaks[n] = 0 \/ \E i \in 1..n : trades[i].cumulative_pnl = peaks[n]

\* a summary of a scan that dips below 0, reaches its peak at the second
\* record and ends under it
W_C28_PeakInside ==
    /\ StatsReturned
    /\ Len(trades) = 3
    /\ trades[scan[1]].cumulative_pnl < 0
    /\ peaks[3] > 0
    /\ trades[scan[2]].cumulative_pnl = peaks[3]
    /\ trades[scan[3]].cumulative_pnl < peaks[3]
    /\ scan # <<1, 2, 3>>

\* the side texts that are 'long' in some casing
LongCasings == {"long", "LONG", "Long", "LoNg"}

\* C29: the side is matched against 'long' whatever its casing: such a record
\* uses the long formula; every other side (a casing of 'short', an empty,
\* padded or misspelled value) is accepted without error and uses the short
\* formula gross_pnl = (entry_price - exit_price) * quantity.
C29_SideMatching ==
    /\ (program = "simple" /\ pc # "start" /\ fileExists
          /\ \A i \in 1..Len(rows) : NumbersParse(rows[i])) => LoadedWhole
    /\ SimpleReady =>
          \A i \in 1..Len(trades) :
              LET t == trades[i]
              IN  IF t.side \in LongCasings
                  THEN t.gross_pnl = (t.exit_price - t.entry_price) * t.quantity
                  ELSE t.gross_pnl = (t.entry_price - t.exit_price) * t.quantity

\* a record whose side is 'long' with a leading blank, exited above its entry:
\* it is given the loss of a short trade
W_C29_PaddedLong ==
    /\ SimpleReady
    /\ Len(trades) = 1
    /\ trades[1].side = " long"
    /\ trades[1].exit_price > trades[1].entry_price
    /\ trades[1].gross_pnl < 0

\* the group key of a record, from its setup field
KeyOfRecord(t) == IF NoCategory(t) THEN "no_setup" ELSE t.setup

\* C30: get_setup_stats partitions the record set: every record belongs to
\* exactly one returned group, no group is empty, the 'trades' counts sum to
\* total_trades and the 'winners' counts sum to winning_trades of get_basic_stats.
C30_SetupPartition ==
    (HasSetupStats /\ HasSummary) =>
        /\ \A i \in 1..Len(trades) :
              Cardinality({j \in 1..Len(setupStats) :
                              setupStats[j].setup = KeyOfRecord(trades[i])}) = 1
        /\ \A j \in 1..Len(setupStats) :
              /\ setupStats[j].trades >= 1
              /\ setupStats[j].trades =
                    Cardinality({i \in 1..Len(trades) :
                                    KeyOfRecord(trades[i]) = setupStats[j].setup})
              /\ setupStats[j].winners =
                    Cardinality({i \in 1..Len(trades) :
                                    /\ KeyOfRecord(trades[i]) = setupStats[j].setup
                                    /\ trades[i].is_winner})
        /\ SumInts([j \in 1..Len(setupStats) |-> setupStats[j].trades]) = stats.total_trades
        /\ SumInts([j \in 1..Len(setupStats) |-> setupStats[j].winners]) = stats.winning_trades

\* an export over three records in two groups, the first group holding a
\* winner and a losing trade that are not adjacent in the file
W_C30_TwoGroups ==
    /\ HasSetupStats /\ HasSummary
    /\ pc = "exported"
    /\ Len(trades) = 3
    /\ Len(setupStats) = 2
    /\ setupStats[1].trades = 2
    /\ setupStats[1].winners = 1
    /\ KeyOfRecord(trades[1]) = KeyOfRecord(trades[3])
    /\ KeyOfRecord(trades[2]) # KeyOfRecord(trades[1])

====
